---- MODULE Spec2Model ----
(***************************************************************************)
(* zonefile-rs: the resolution engine (parser.rs, transform.rs,            *)
(* validation.rs), the serial manager (serial.rs) and the run of the       *)
(* binary (main.rs), as a state machine.                                   *)
(*                                                                         *)
(* Strings are sequences of one-character strings, so that trimming,       *)
(* suffix tests, splitting and concatenation are computed as the code      *)
(* computes them.  A u32 is the pair <<hi, lo>> with value hi * 10^5 + lo  *)
(* (TLC's integers stop at 2^31 - 1); every u32 operation is taken modulo  *)
(* 2^32, or panics when the build checks overflow.  An Option is the       *)
(* empty sequence (None) or a one-element sequence (Some).                 *)
(***************************************************************************)
EXTENDS Integers, Sequences, FiniteSets, TLC

VARIABLES
    file,            \* the serial file: [exists, text]
    pc,              \* position of main: start, read, parse, render, save, exit_ok, exit_err
    old_serial,      \* main's old_serial (serial.rs load_serial)
    serial,          \* main's serial (serial.rs calc_serial)
    now,             \* Utc::now() of the current run: <<year, month, day>>
    doc,             \* the decoded input document (parser.rs Content)
    parsed,          \* the value parse returned in the current run
    outputs,         \* every rendered output written so far, oldest first
    start,           \* what the run found when it started: [file, outputs]
    failed_at,       \* the step that ended the current run with an error
    runs,            \* number of runs started
    overflow_checks, \* build profile: TRUE when u32 overflow panics (debug)
    call,            \* library level: the public function called and its arguments
    ret              \* library level: what the call returned

vars == <<file, pc, old_serial, serial, now, doc, parsed, outputs, start,
          failed_at, runs, overflow_checks, call, ret>>

(***************************************************************************)
(* Options and results                                                     *)
(***************************************************************************)
None == <<>>
Some(x) == <<x>>
IsSome(o) == Len(o) = 1
unwrap_or(o, d) == IF Len(o) = 1 THEN o[1] ELSE d

Ok(v) == [ok |-> TRUE, err |-> "", val |-> v]
Err(e) == [ok |-> FALSE, err |-> e, val |-> <<>>]

\* let v = ...; F(v)
Bind(v, F(_)) == F(v)
\* let v = res?; F(v)
and_then(res, F(_)) == IF res.ok THEN F(res.val) ELSE res

(***************************************************************************)
(* Strings                                                                 *)
(***************************************************************************)
Digits == <<"0", "1", "2", "3", "4", "5", "6", "7", "8", "9">>
DigitSet == {Digits[i] : i \in 1..10}
\* The texts of the model are ASCII: a character outside ASCII is read
\* according to the character set of the platform, so that what it stands
\* for is not fixed by the module.  Letters holds every ASCII character that
\* char::is_alphanumeric accepts besides the digits, Whitespace every ASCII
\* character that str::trim removes (U+0009 to U+000D and the space).
\* U+000B has no escape and is written as the character itself.
VerticalTab == ""
Letters == {"a", "b", "c", "d", "e", "f", "g", "h", "i", "j", "k", "l", "m",
            "n", "o", "p", "q", "r", "s", "t", "u", "v", "w", "x", "y", "z",
            "A", "B", "C", "D", "E", "F", "G", "H", "I", "J", "K", "L", "M",
            "N", "O", "P", "Q", "R", "S", "T", "U", "V", "W", "X", "Y", "Z"}
Whitespace == {"\t", "\n", VerticalTab, "\f", "\r", " "}

DigitVal(c) == (CHOOSE i \in 1..10 : Digits[i] = c) - 1

ends_with(s, c) == Len(s) > 0 /\ s[Len(s)] = c
starts_with(s, c) == Len(s) > 0 /\ s[1] = c

RECURSIVE trim_start(_)
trim_start(s) ==
    IF Len(s) > 0 /\ s[1] \in Whitespace THEN trim_start(Tail(s)) ELSE s

RECURSIVE trim_end(_)
trim_end(s) ==
    IF Len(s) > 0 /\ s[Len(s)] \in Whitespace
    THEN trim_end(SubSeq(s, 1, Len(s) - 1))
    ELSE s

trim(s) == trim_end(trim_start(s))

\* str::find(c): the position of the first c, 0 when there is none.
find(s, c) ==
    IF \E i \in 1..Len(s) : s[i] = c
    THEN CHOOSE k \in 1..Len(s) : s[k] = c /\ \A j \in 1..(k - 1) : s[j] # c
    ELSE 0

\* str::split(c): the pieces between the occurrences of c (always at least one).
RECURSIVE split(_, _)
split(s, c) ==
    Bind(find(s, c), LAMBDA i :
        IF i = 0 THEN <<s>>
        ELSE <<SubSeq(s, 1, i - 1)>> \o split(SubSeq(s, i + 1, Len(s)), c))

RECURSIVE join(_, _)
join(parts, sep) ==
    IF Len(parts) = 0 THEN <<>>
    ELSE IF Len(parts) = 1 THEN parts[1]
    ELSE parts[1] \o sep \o join(Tail(parts), sep)

RECURSIVE NatToStr(_)
NatToStr(n) ==
    IF n < 10 THEN <<Digits[n + 1]>>
    ELSE NatToStr(n \div 10) \o <<Digits[(n % 10) + 1]>>

(***************************************************************************)
(* u32 arithmetic on <<hi, lo>> = hi * 10^5 + lo                           *)
(***************************************************************************)
Base == 10 ^ 5
U32Max == <<42949, 67295>>
TwoPow32 == <<42949, 67296>>

Big(hi, lo) == <<hi + (lo \div Base), lo % Base>>
Lt(a, b) == a[1] < b[1] \/ (a[1] = b[1] /\ a[2] < b[2])
Le(a, b) == a = b \/ Lt(a, b)
BigAdd(a, b) == Big(a[1] + b[1], a[2] + b[2])
BigSub(a, b) ==
    IF a[2] >= b[2] THEN <<a[1] - b[1], a[2] - b[2]>>
    ELSE <<a[1] - b[1] - 1, a[2] + Base - b[2]>>
BigMax(a, b) == IF Lt(a, b) THEN b ELSE a

Overflows(v) == Lt(U32Max, v)

RECURSIVE Wrap(_)
Wrap(v) == IF Overflows(v) THEN Wrap(BigSub(v, TwoPow32)) ELSE v

\* One u32 operation whose exact result is v: the value kept, and whether a
\* build with overflow checks panics on it.
U32Op(v, checks) == [panic |-> checks /\ Overflows(v), val |-> Wrap(v)]

U32ToStr(v) ==
    IF v[1] = 0 THEN NatToStr(v[2])
    ELSE NatToStr(v[1]) \o
         <<Digits[((v[2] \div 10000) % 10) + 1], Digits[((v[2] \div 1000) % 10) + 1],
           Digits[((v[2] \div 100) % 10) + 1], Digits[((v[2] \div 10) % 10) + 1],
           Digits[(v[2] % 10) + 1]>>

\* str::parse::<u32>: an optional '+', then one or more decimal digits whose
\* value fits 32 bits.
RECURSIVE ParseDigits(_, _)
ParseDigits(s, acc) ==
    IF Len(s) = 0 THEN Ok(acc)
    ELSE IF s[1] \notin DigitSet THEN Err("InvalidDigit")
    ELSE Bind(Big(acc[1] * 10, acc[2] * 10 + DigitVal(s[1])), LAMBDA v :
            IF Overflows(v) THEN Err("PosOverflow") ELSE ParseDigits(Tail(s), v))

ParseU32(s) ==
    IF Len(s) = 0 THEN Err("Empty")
    ELSE Bind(IF starts_with(s, "+") THEN Tail(s) ELSE s, LAMBDA digits :
            IF Len(digits) = 0 THEN Err("InvalidDigit")
            ELSE ParseDigits(digits, <<0, 0>>))

(***************************************************************************)
(* validation.rs                                                           *)
(***************************************************************************)
MaxDnsNameLen == 253
MaxLabelLen == 63
MaxEmailLen == 254
MaxLocalLen == 64

is_alphanumeric(c) == c \in Letters \/ c \in DigitSet
is_numeric(c) == c \in DigitSet
all_chars(s, P(_)) == \A i \in 1..Len(s) : P(s[i])
contains_char(s, c) == \E i \in 1..Len(s) : s[i] = c

\* str::trim_end_matches('.'): every trailing dot is removed.
RECURSIVE trim_end_dots(_)
trim_end_dots(s) ==
    IF ends_with(s, ".") THEN trim_end_dots(SubSeq(s, 1, Len(s) - 1)) ELSE s

dns_label_char(c) == is_alphanumeric(c) \/ c = "-" \/ c = "_"

\* A loop body that lets a label with '*' pass wherever it stands, to show
\* what C21 rests on.
dns_label_error_any_wildcard(label, i) ==
    IF Len(label) = 0 THEN "EmptyLabel"
    ELSE IF Len(label) > MaxLabelLen THEN "LabelTooLong"
    ELSE IF contains_char(label, "*") THEN ""
    ELSE IF starts_with(label, "-") \/ ends_with(label, "-") THEN "LabelHyphen"
    ELSE IF ~all_chars(label, dns_label_char) THEN "LabelInvalidChars"
    ELSE ""

\* The body of validate_dns_name's loop for label number i (from 0): the
\* error the label raises, or "" when the loop goes on.
dns_label_error(label, i) ==
    IF Len(label) = 0 THEN "EmptyLabel"
    ELSE IF Len(label) > MaxLabelLen THEN "LabelTooLong"
    ELSE IF contains_char(label, "*")
         THEN IF i # 0 THEN "WildcardNotLeftmost"
              ELSE IF label # <<"*">> THEN "WildcardNotEntireLabel"
              ELSE ""
    ELSE IF starts_with(label, "-") \/ ends_with(label, "-") THEN "LabelHyphen"
    ELSE IF ~all_chars(label, dns_label_char) THEN "LabelInvalidChars"
    ELSE ""

RECURSIVE dns_labels_check(_, _)
dns_labels_check(labels, i) ==
    IF Len(labels) = 0 THEN Ok(<<>>)
    ELSE Bind(dns_label_error(labels[1], i), LAMBDA e :
            IF e # "" THEN Err(e) ELSE dns_labels_check(Tail(labels), i + 1))

validate_dns_name(name) ==
    IF Len(name) > MaxDnsNameLen THEN Err("NameTooLong")
    ELSE IF ~ends_with(name, ".") THEN Err("NotFullyQualified")
    ELSE dns_labels_check(split(trim_end_dots(name), "."), 0)

\* str::split_once(c): None, or the text before and after the first c.
split_once(s, c) ==
    Bind(find(s, c), LAMBDA i :
        IF i = 0 THEN None
        ELSE Some(<<SubSeq(s, 1, i - 1), SubSeq(s, i + 1, Len(s))>>))

email_local_char(c) ==
    is_alphanumeric(c) \/ c = "." \/ c = "+" \/ c = "-" \/ c = "_"
email_domain_char(c) == is_alphanumeric(c) \/ c = "-"
consecutive_dots(s) == \E i \in 1..(Len(s) - 1) : s[i] = "." /\ s[i + 1] = "."

email_domain_label_error(label) ==
    IF Len(label) = 0 THEN "EmailDomainEmptyLabel"
    ELSE IF Len(label) > MaxLabelLen THEN "EmailDomainLabelTooLong"
    ELSE IF starts_with(label, "-") \/ ends_with(label, "-")
         THEN "EmailDomainLabelHyphen"
    ELSE IF ~all_chars(label, email_domain_char) THEN "EmailDomainInvalidChars"
    ELSE ""

RECURSIVE email_labels_check(_)
email_labels_check(labels) ==
    IF Len(labels) = 0 THEN ""
    ELSE Bind(email_domain_label_error(labels[1]), LAMBDA e :
            IF e # "" THEN e ELSE email_labels_check(Tail(labels)))

\* validate_email after the split at '@'.
email_parts_check(local, domain) ==
    IF Len(local) = 0 THEN Err("EmailLocalEmpty")
    ELSE IF Len(local) > MaxLocalLen THEN Err("EmailLocalTooLong")
    ELSE IF starts_with(local, ".") \/ ends_with(local, ".")
         THEN Err("EmailLocalDotEdge")
    ELSE IF consecutive_dots(local) THEN Err("EmailLocalConsecutiveDots")
    ELSE IF ~all_chars(local, email_local_char) THEN Err("EmailLocalInvalidChars")
    ELSE IF Len(domain) = 0 THEN Err("EmailDomainEmpty")
    ELSE IF ~contains_char(domain, ".") THEN Err("EmailDomainNoDot")
    ELSE Bind(split(domain, "."), LAMBDA labels :
         Bind(email_labels_check(labels), LAMBDA label_err :
            IF label_err # "" THEN Err(label_err)
            ELSE IF all_chars(labels[Len(labels)], is_numeric) THEN Err("EmailTldNumeric")
            ELSE Ok(<<>>)))

validate_email(email) ==
    IF Len(email) > MaxEmailLen THEN Err("EmailTooLong")
    ELSE Bind(split_once(email, "@"), LAMBDA parts :
            IF parts = None THEN Err("EmailMustContainAt")
            ELSE email_parts_check(parts[1][1], parts[1][2]))

(***************************************************************************)
(* transform.rs: the normalizer                                            *)
(***************************************************************************)
\* Completion that appends the zone to a name that ends with '.' too, to show
\* what C14 rests on.
parse_host_str_appending(name, zone_name) ==
    Bind(trim(name), LAMBDA host :
        IF Len(zone_name) = 0
        THEN (IF ends_with(host, ".") THEN Ok(host) ELSE Err("HostMustBeFqdn"))
        ELSE IF host = <<"@">> THEN Ok(zone_name)
        ELSE Ok(host \o <<".">> \o zone_name))

\* Completion that knows no apex marker, to show what C13 rests on.
parse_host_str_no_apex(name, zone_name) ==
    Bind(trim(name), LAMBDA host :
        IF ends_with(host, ".") THEN Ok(host)
        ELSE IF Len(zone_name) = 0 THEN Err("HostMustBeFqdn")
        ELSE Ok(host \o <<".">> \o zone_name))

parse_host_str(name, zone_name) ==
    Bind(trim(name), LAMBDA host :
        IF ends_with(host, ".") THEN Ok(host)
        ELSE IF Len(zone_name) = 0 THEN Err("HostMustBeFqdn")
        ELSE IF host = <<"@">> THEN Ok(zone_name)
        ELSE Ok(host \o <<".">> \o zone_name))

parse_srv_name(name, zone_name) ==
    Bind(trim(name), LAMBDA srv_name :
    Bind(split(srv_name, "."), LAMBDA parts :
        IF Len(parts) < 2 THEN Err("SrvNameTooShort")
        ELSE IF ~starts_with(parts[1], "_") THEN Err("SrvServiceUnderscore")
        ELSE IF ~starts_with(parts[2], "_") THEN Err("SrvProtocolUnderscore")
        ELSE parse_host_str(srv_name, zone_name)))

\* str::replace('.', "\\."): every dot gets a backslash in front.
RECURSIVE escape_dots(_)
escape_dots(s) ==
    IF Len(s) = 0 THEN <<>>
    ELSE (IF s[1] = "." THEN <<"\\", ".">> ELSE <<s[1]>>) \o escape_dots(Tail(s))

\* format!("{escaped_local}.{dom}") of parse_email.
soa_mailbox(local, domain) ==
    escape_dots(local) \o <<".">> \o
    (IF ends_with(domain, ".") THEN domain ELSE domain \o <<".">>)

parse_email(raw) ==
    Bind(split_once(raw, "@"), LAMBDA parts :
        IF parts = None THEN Err("EmailMissingAt")
        ELSE Bind(soa_mailbox(parts[1][1], parts[1][2]), LAMBDA email :
                and_then(validate_email(email), LAMBDA unit : Ok(email))))

(***************************************************************************)
(* parser.rs: the decoded input shapes                                     *)
(*   SingleOrVecValue<T>    [single, vals]            to_vec gives vals    *)
(*   StringOrTableValue<T>  [table, name, ttl, prio]  (Entry: a bare name) *)
(*   HostValue              [entry, ip, alias, ttl, with_ptr]              *)
(* A HashMap is given as the sequence of its (key, value) pairs in the     *)
(* order its iteration yields them.                                        *)
(***************************************************************************)
Single(x) == [single |-> TRUE, vals |-> <<x>>]
Multiple(xs) == [single |-> FALSE, vals |-> xs]
to_vec(v) == v.vals

Entry(name) == [table |-> FALSE, name |-> name, ttl |-> None, prio |-> None]
Table(name, ttl, prio) == [table |-> TRUE, name |-> name, ttl |-> ttl, prio |-> prio]

\* StringOrTableValue<MxEntry>::to_entry
to_entry(v) ==
    IF v.table THEN [name |-> v.name, prio |-> v.prio, ttl |-> v.ttl]
    ELSE [name |-> v.name, prio |-> None, ttl |-> None]

\* Iterator::collect::<Result<Vec<_>>>: the first error, else all the values.
collect(results) ==
    IF \E i \in 1..Len(results) : ~results[i].ok
    THEN results[CHOOSE i \in 1..Len(results) :
                     ~results[i].ok /\ \A j \in 1..(i - 1) : results[j].ok]
    ELSE Ok([i \in 1..Len(results) |-> results[i].val])

RECURSIVE concat_all(_)
concat_all(seqs) ==
    IF Len(seqs) = 0 THEN <<>> ELSE seqs[1] \o concat_all(Tail(seqs))

(***************************************************************************)
(* transform.rs: forward record derivation                                 *)
(***************************************************************************)
\* A record ttl that is always the zone's, to show what C26 rests on.
entry_ttl_of_zone(entry, default_ttl) == default_ttl

\* match entry { Entry(e) => default, Table(t) => t.field.unwrap_or(default) }
entry_ttl(entry, default_ttl) ==
    IF entry.table THEN unwrap_or(entry.ttl, default_ttl) ELSE default_ttl
entry_prio(entry, default_prio) ==
    IF entry.table THEN unwrap_or(entry.prio, default_prio) ELSE default_prio

mx_entry_record(entry, zone_name, default_ttl, default_mx_prio) ==
    and_then(parse_host_str(entry.name, zone_name), LAMBDA fqdn :
    and_then(validate_dns_name(fqdn), LAMBDA unit :
        Ok([name |-> fqdn,
            ttl |-> entry_ttl(entry, default_ttl),
            prio |-> entry_prio(entry, default_mx_prio)])))

mx_default_record(entry, default_ttl, default_mx_prio) ==
    [name |-> entry.name,
     ttl |-> unwrap_or(entry.ttl, default_ttl),
     prio |-> unwrap_or(entry.prio, default_mx_prio)]

parse_mx(raw, zone_name, default_ttl, default_mx_prio, default_mx) ==
    IF IsSome(raw)
    THEN Bind(to_vec(raw[1]), LAMBDA entries :
            collect([i \in 1..Len(entries) |->
                       mx_entry_record(entries[i], zone_name, default_ttl,
                                       default_mx_prio)]))
    ELSE Ok([i \in 1..Len(default_mx) |->
                mx_default_record(default_mx[i], default_ttl, default_mx_prio)])

ns_entry_record(entry, zone_name, default_ttl) ==
    and_then(parse_host_str(entry.name, zone_name), LAMBDA fqdn :
    and_then(validate_dns_name(fqdn), LAMBDA unit :
        Ok([name |-> fqdn, ttl |-> entry_ttl(entry, default_ttl)])))

\* A parse_ns that appends the default nameservers to the declared ones, to
\* show what C27 rests on.
parse_ns_merging(raw, zone_name, default_ttl, default_ns) ==
    IF IsSome(raw)
    THEN Bind(to_vec(raw[1]), LAMBDA entries :
            and_then(collect([i \in 1..Len(entries) |->
                                ns_entry_record(entries[i], zone_name, default_ttl)]),
                     LAMBDA declared :
                Ok(declared \o [i \in 1..Len(default_ns) |->
                                   [name |-> default_ns[i], ttl |-> default_ttl]])))
    ELSE IF Len(default_ns) = 0 THEN Err("NeedsNameserver")
    ELSE Ok([i \in 1..Len(default_ns) |-> [name |-> default_ns[i], ttl |-> default_ttl]])

parse_ns(raw, zone_name, default_ttl, default_ns) ==
    IF IsSome(raw)
    THEN Bind(to_vec(raw[1]), LAMBDA entries :
            collect([i \in 1..Len(entries) |->
                       ns_entry_record(entries[i], zone_name, default_ttl)]))
    ELSE IF Len(default_ns) = 0 THEN Err("NeedsNameserver")
    ELSE Ok([i \in 1..Len(default_ns) |-> [name |-> default_ns[i], ttl |-> default_ttl]])

\* One (cname, entry) pair of the map: entry is a StringOrTableValue whose
\* name field holds the target.
cname_record(pair, zone_name, default_ttl) ==
    and_then(parse_host_str(pair[1], zone_name), LAMBDA name :
    and_then(parse_host_str(pair[2].name, zone_name), LAMBDA target :
        Ok([name |-> name, target |-> target,
            ttl |-> entry_ttl(pair[2], default_ttl)])))

parse_cname(raw, zone_name, default_ttl) ==
    Bind(unwrap_or(raw, <<>>), LAMBDA pairs :
        collect([i \in 1..Len(pairs) |-> cname_record(pairs[i], zone_name, default_ttl)]))

\* One (srv_name, SrvEntry) pair: SrvEntry is [target, port, ttl, prio, weight].
srv_record(pair, zone_name, default_ttl, default_srv_prio, default_srv_weight) ==
    and_then(parse_srv_name(pair[1], zone_name), LAMBDA name :
    and_then(parse_host_str(pair[2].target, zone_name), LAMBDA target :
        Ok([name |-> name,
            port |-> pair[2].port,
            target |-> target,
            ttl |-> unwrap_or(pair[2].ttl, default_ttl),
            prio |-> unwrap_or(pair[2].prio, default_srv_prio),
            weight |-> unwrap_or(pair[2].weight, default_srv_weight)])))

parse_srv(raw, zone_name, default_ttl, default_srv_prio, default_srv_weight) ==
    Bind(unwrap_or(raw, <<>>), LAMBDA pairs :
        collect([i \in 1..Len(pairs) |->
                   srv_record(pairs[i], zone_name, default_ttl, default_srv_prio,
                              default_srv_weight)]))

\* match value { Ip(ip) => (ip, [], default, default), Entry(e) => ... }
host_aliases(value) ==
    IF value.entry /\ IsSome(value.alias) THEN to_vec(value.alias[1]) ELSE <<>>
host_ttl(value, default_ttl) ==
    IF value.entry THEN unwrap_or(value.ttl, default_ttl) ELSE default_ttl
host_with_ptr(value, default_with_ptr) ==
    IF value.entry THEN unwrap_or(value.with_ptr, default_with_ptr)
    ELSE default_with_ptr

\* A PTR test that does not look at the name, to show what C18 rests on.
wants_ptr_ignoring_wildcard(with_ptr, fqdn) == with_ptr

\* The PTR test of parse_hosts for one address of a host.
wants_ptr(with_ptr, fqdn) == with_ptr /\ ~starts_with(fqdn, "*")

\* The loop of parse_hosts over the addresses of one host: per address the A
\* record of the host, one per alias, and the PTR candidate, in push order.
host_ip_records(fqdn, ips, aliases, ttl, with_ptr, zone_name) ==
    IF Len(ips) = 0 THEN Ok([a |-> <<>>, ptr |-> <<>>])
    ELSE and_then(collect([j \in 1..Len(aliases) |-> parse_host_str(aliases[j], zone_name)]),
                  LAMBDA names :
            Ok([a |-> concat_all([k \in 1..Len(ips) |->
                         <<[name |-> fqdn, ip |-> ips[k], ttl |-> ttl]>> \o
                         [j \in 1..Len(names) |->
                             [name |-> names[j], ip |-> ips[k], ttl |-> ttl]]]),
                ptr |-> concat_all([k \in 1..Len(ips) |->
                         IF wants_ptr(with_ptr, fqdn)
                         THEN <<[name |-> fqdn, ip |-> ips[k], ttl |-> ttl]>>
                         ELSE <<>>])]))

\* The body of parse_hosts' outer loop for one (hostname, value) pair.
host_records(pair, zone_name, default_ttl, default_with_ptr) ==
    and_then(parse_host_str(pair[1], zone_name), LAMBDA fqdn :
        host_ip_records(fqdn, to_vec(pair[2].ip), host_aliases(pair[2]),
                        host_ttl(pair[2], default_ttl),
                        host_with_ptr(pair[2], default_with_ptr), zone_name))

parse_hosts(raw, zone_name, default_ttl, default_with_ptr) ==
    Bind(unwrap_or(raw, <<>>), LAMBDA pairs :
    and_then(collect([i \in 1..Len(pairs) |->
                        host_records(pairs[i], zone_name, default_ttl, default_with_ptr)]),
             LAMBDA each :
        Ok([a |-> concat_all([i \in 1..Len(each) |-> each[i].a]),
            ptr |-> concat_all([i \in 1..Len(each) |-> each[i].ptr])])))

(***************************************************************************)
(* Addresses and networks (std::net::IpAddr, ipnetwork::IpNetwork as       *)
(* transform.rs uses them).  An address is [v, octets] with 4 or 16 bytes; *)
(* a network is [v, octets, prefix] and keeps the address it was declared  *)
(* with, host bits included.                                               *)
(***************************************************************************)
HexDigits == <<"0", "1", "2", "3", "4", "5", "6", "7",
               "8", "9", "a", "b", "c", "d", "e", "f">>

V4(a, b, c, d) == [v |-> 4, octets |-> <<a, b, c, d>>]
V6(octets) == [v |-> 6, octets |-> octets]
Net(ip, prefix) == [v |-> ip.v, octets |-> ip.octets, prefix |-> prefix]

\* Number of host bits of byte i (from 1) under a prefix.
host_bits(prefix, i) ==
    Bind(prefix - 8 * (i - 1), LAMBDA net_bits :
        IF net_bits >= 8 THEN 0 ELSE IF net_bits <= 0 THEN 8 ELSE 8 - net_bits)

\* addr & mask and addr | !mask, byte by byte.
mask_octets(octets, prefix) ==
    [i \in 1..Len(octets) |-> octets[i] - (octets[i] % (2 ^ host_bits(prefix, i)))]
fill_octets(octets, prefix) ==
    [i \in 1..Len(octets) |->
        octets[i] - (octets[i] % (2 ^ host_bits(prefix, i))) + (2 ^ host_bits(prefix, i)) - 1]

net_ip(net) == [v |-> net.v, octets |-> net.octets]
network(net) == [v |-> net.v, octets |-> mask_octets(net.octets, net.prefix)]
broadcast(net) == [v |-> net.v, octets |-> fill_octets(net.octets, net.prefix)]

\* IpNetwork::contains: same family and equal under the network's mask.
contains(net, ip) ==
    /\ net.v = ip.v
    /\ mask_octets(ip.octets, net.prefix) = mask_octets(net.octets, net.prefix)

\* A test that asks only whether this network holds the other one's ends, to
\* show what C29 rests on.
overlaps_holding_only(n, other) ==
    \/ contains(n, net_ip(other))
    \/ contains(n, broadcast(other))

\* A test that asks only whether the other network holds this one's ends, to
\* show what C3 rests on.
overlaps_one_way(n, other) ==
    \/ contains(other, net_ip(n))
    \/ contains(other, broadcast(n))

\* Ipv4Network::overlaps / Ipv6Network::overlaps (called on one family only).
overlaps(n, other) ==
    \/ contains(other, net_ip(n))
    \/ contains(other, broadcast(n))
    \/ contains(n, net_ip(other))
    \/ contains(n, broadcast(other))

\* format!("{:032x}", u128::from(ip)) as a sequence of 32 nibble characters.
hex_nibbles(octets) ==
    [k \in 1..(2 * Len(octets)) |->
        IF k % 2 = 1 THEN HexDigits[(octets[(k + 1) \div 2] \div 16) + 1]
        ELSE HexDigits[(octets[k \div 2] % 16) + 1]]

reverse_seq(s) == [i \in 1..Len(s) |-> s[Len(s) + 1 - i]]

InAddrArpa == <<".", "i", "n", "-", "a", "d", "d", "r", ".", "a", "r", "p", "a", ".">>
Ip6Arpa == <<".", "i", "p", "6", ".", "a", "r", "p", "a", ".">>

\* The first n units in address order, to show what C15 rests on.
leading_units(units, n) == join([i \in 1..n |-> units[i]], <<".">>)

\* The first n units of the network address, last first, joined by dots.
reversed_units(units, n) == join([i \in 1..n |-> units[n + 1 - i]], <<".">>)

\* A split that counts the units the prefix covers, to show what C16 rests on.
create_reverse_zone_name_prefix_split(net) ==
    IF net.v = 4
    THEN Bind(network(net).octets, LAMBDA octets :
            [name |-> reversed_units([i \in 1..4 |-> NatToStr(octets[i])],
                                     net.prefix \div 8) \o InAddrArpa,
             split |-> net.prefix \div 8])
    ELSE Bind(hex_nibbles(network(net).octets), LAMBDA nibbles :
            [name |-> reversed_units([i \in 1..32 |-> <<nibbles[i]>>],
                                     net.prefix \div 4) \o Ip6Arpa,
             split |-> net.prefix \div 4])

create_reverse_zone_name(net) ==
    IF net.v = 4
    THEN Bind(network(net).octets, LAMBDA octets :
            [name |-> reversed_units([i \in 1..4 |-> NatToStr(octets[i])],
                                     net.prefix \div 8) \o InAddrArpa,
             split |-> (32 - net.prefix) \div 8])
    ELSE Bind(hex_nibbles(network(net).octets), LAMBDA nibbles :
            [name |-> reversed_units([i \in 1..32 |-> <<nibbles[i]>>],
                                     net.prefix \div 4) \o Ip6Arpa,
             split |-> (128 - net.prefix) \div 4])

\* ip_name; for a V4 address octets[3 - i] is out of range once i > 3 (panic).
ip_name(address, split_n) ==
    IF address.v = 4
    THEN IF split_n > 4 THEN [panic |-> TRUE, val |-> <<>>]
         ELSE [panic |-> FALSE,
               val |-> join([i \in 1..split_n |-> NatToStr(address.octets[5 - i])], <<".">>)]
    ELSE Bind(reverse_seq(hex_nibbles(address.octets)), LAMBDA rev :
            [panic |-> FALSE,
             val |-> join([i \in 1..(IF split_n < 32 THEN split_n ELSE 32) |-> <<rev[i]>>],
                          <<".">>)])

(***************************************************************************)
(* transform.rs: zone derivation                                           *)
(***************************************************************************)
\* A zone email that is left empty when neither the zone nor the defaults
\* declare one, to show what C19 rests on.
zone_email_optional(raw_email, defaults) ==
    IF IsSome(raw_email) THEN parse_email(raw_email[1])
    ELSE IF IsSome(defaults.email) THEN Ok(defaults.email[1])
    ELSE Ok(<<>>)

\* The email of a zone: its own, transformed, else the session default.
zone_email(raw_email, defaults) ==
    IF IsSome(raw_email) THEN parse_email(raw_email[1])
    ELSE IF IsSome(defaults.email) THEN Ok(defaults.email[1])
    ELSE Err("EmailRequired")

\* No check of a zone's effective values, to show what C9 rests on.
retry_never_checked(entry, defaults) == FALSE

\* if retry >= refresh { bail!(...) } on a zone's effective values.
retry_not_less(entry, defaults) ==
    unwrap_or(entry.retry, defaults.retry) >= unwrap_or(entry.refresh, defaults.refresh)

\* A ZoneBase that takes the serial of the defaults whatever the zone
\* declares, to show what C20 rests on.
zone_base_defaults_serial(entry, defaults, name, email, nameserver) ==
    [serial |-> defaults.serial,
     name |-> name,
     email |-> email,
     expire |-> unwrap_or(entry.expire, defaults.expire),
     nameserver |-> nameserver,
     nrc_ttl |-> unwrap_or(entry.nrc_ttl, defaults.nrc_ttl),
     refresh |-> unwrap_or(entry.refresh, defaults.refresh),
     retry |-> unwrap_or(entry.retry, defaults.retry),
     ttl |-> unwrap_or(entry.ttl, defaults.ttl)]

\* The ZoneBase literal of parse_forward and of parse_reverse.
zone_base(entry, defaults, name, email, nameserver) ==
    [serial |-> unwrap_or(entry.serial, defaults.serial),
     name |-> name,
     email |-> email,
     expire |-> unwrap_or(entry.expire, defaults.expire),
     nameserver |-> nameserver,
     nrc_ttl |-> unwrap_or(entry.nrc_ttl, defaults.nrc_ttl),
     refresh |-> unwrap_or(entry.refresh, defaults.refresh),
     retry |-> unwrap_or(entry.retry, defaults.retry),
     ttl |-> unwrap_or(entry.ttl, defaults.ttl)]

\* parse_forward once zone_name and ttl are known.
forward_zone(raw, defaults, zone_name, ttl) ==
    IF retry_not_less(raw, defaults) THEN Err("RetryNotLessThanRefresh")
    ELSE
    and_then(zone_email(raw.email, defaults), LAMBDA email :
    and_then(parse_hosts(raw.hosts, zone_name, ttl,
                         unwrap_or(raw.with_ptr, defaults.with_ptr)), LAMBDA hosts :
    and_then(parse_mx(raw.mx, zone_name, ttl,
                      unwrap_or(raw.mx_prio, defaults.mx_prio), defaults.mx), LAMBDA mx :
    and_then(parse_ns(raw.nameserver, zone_name, ttl, defaults.nameserver),
             LAMBDA nameserver :
    and_then(parse_cname(raw.cname, zone_name, ttl), LAMBDA cname :
    and_then(parse_srv(raw.srv, zone_name, ttl,
                       unwrap_or(raw.srv_prio, defaults.srv_prio),
                       unwrap_or(raw.srv_weight, defaults.srv_weight)), LAMBDA srv :
        Ok([zone |-> [base |-> zone_base(raw, defaults, zone_name, email, nameserver),
                      mx |-> mx,
                      hosts |-> hosts.a,
                      cname |-> cname,
                      srv |-> srv],
            ptr |-> hosts.ptr])))))))

\* A zone name taken as declared, to show what C11 rests on.
parse_forward_name_as_given(raw, defaults) ==
    forward_zone(raw, defaults, raw.name, unwrap_or(raw.ttl, defaults.ttl))

parse_forward(raw, defaults) ==
    forward_zone(raw, defaults,
                 IF ends_with(raw.name, ".") THEN raw.name ELSE raw.name \o <<".">>,
                 unwrap_or(raw.ttl, defaults.ttl))

\* for n in &net4 { if n.overlaps(n4) { bail!(...) } } (and net6): accepted
\* holds net4 and net6 together, the test is made within the family.
overlaps_accepted(accepted, net) ==
    \E i \in 1..Len(accepted) : accepted[i].v = net.v /\ overlaps(accepted[i], net)

\* A claim by address family alone, to show what C2 rests on.
claimed_same_family(net, ptrs) == {p \in ptrs : p.ip.v = net.v}

\* ptrs.extract_if(|ip, _ptr| net.contains(*ip)): the entries taken out.
claimed(net, ptrs) == {p \in ptrs : contains(net, p.ip)}

\* The closure of parse_reverse for one (net, entry) pair, given the networks
\* accepted so far and the PTR candidates still in the pool.
reverse_zone(net, entry, accepted, ptrs, defaults) ==
    IF overlaps_accepted(accepted, net) THEN Err("NetworksOverlap")
    ELSE
    Bind(create_reverse_zone_name(net), LAMBDA named :
        IF retry_not_less(entry, defaults) THEN Err("RetryNotLessThanRefresh")
        ELSE
        and_then(zone_email(entry.email, defaults), LAMBDA email :
        and_then(parse_ns(entry.nameserver, named.name,
                          unwrap_or(entry.ttl, defaults.ttl), defaults.nameserver),
                 LAMBDA nameserver :
            Ok([base |-> zone_base(entry, defaults, named.name, email, nameserver),
                ptr |-> claimed(net, ptrs),
                split |-> named.split]))))

\* The map-and-collect of parse_reverse over the pairs in iteration order.
RECURSIVE reverse_zones(_, _, _, _, _)
reverse_zones(pairs, accepted, ptrs, defaults, zones) ==
    IF Len(pairs) = 0 THEN Ok(zones)
    ELSE and_then(reverse_zone(pairs[1][1], pairs[1][2], accepted, ptrs, defaults),
                  LAMBDA z :
            reverse_zones(Tail(pairs), Append(accepted, pairs[1][1]),
                          ptrs \ z.ptr, defaults, Append(zones, z)))

\* ptrs is the HashMap<IpAddr, PtrRecord> as the set of its values, each
\* stored under its own ip; a zone's ptr is the set of the records it took.
parse_reverse(raw, defaults, ptrs) ==
    reverse_zones(unwrap_or(raw, <<>>), <<>>, ptrs, defaults, <<>>)

(***************************************************************************)
(* parser.rs: TTL::deserialize.  The number the input dialect hands to the *)
(* visitor is [width, neg, mag]: the visitor method it calls, its sign and *)
(* its magnitude; "value as u32" keeps the low 32 bits.                    *)
(***************************************************************************)
TtlMax == <<21474, 83647>>

visit_u32(value) ==
    IF value = <<0, 0>> THEN Err("TtlZero")
    ELSE IF Lt(TtlMax, value) THEN Err("TtlTooLarge")
    ELSE Ok(value)

visit_u64(value) ==
    IF Lt(TtlMax, value) THEN Err("TtlTooLarge")
    ELSE visit_u32(Wrap(value))

visit_i64(neg, mag) ==
    IF neg THEN Err("TtlNegative")
    ELSE visit_u32(Wrap(mag))

deserialize_ttl(number) ==
    IF number.width = "u32" THEN visit_u32(number.mag)
    ELSE IF number.width = "u64" THEN visit_u64(number.mag)
    ELSE visit_i64(number.neg, number.mag)

(***************************************************************************)
(* parser.rs: SessionDefaults::from_raw and parse                          *)
(***************************************************************************)
\* match raw.email { Some(e) => Some(parse_email(&e.0)?), None => None }
default_email(raw_email) ==
    IF IsSome(raw_email)
    THEN and_then(parse_email(raw_email[1]), LAMBDA email : Ok(Some(email)))
    ELSE Ok(None)

\* raw.x.map(SingleOrVecValue::to_vec).unwrap_or_default()
to_vec_or_default(o) == IF IsSome(o) THEN to_vec(o[1]) ELSE <<>>

from_raw(raw, gen_serial) ==
    IF raw.retry >= raw.refresh THEN Err("RetryNotLessThanRefresh")
    ELSE
    and_then(default_email(raw.email), LAMBDA email :
    Bind(to_vec_or_default(raw.nameserver), LAMBDA nameserver :
    and_then(collect([i \in 1..Len(nameserver) |-> validate_dns_name(nameserver[i])]),
             LAMBDA unit :
    Bind(to_vec_or_default(raw.mx), LAMBDA mx :
        Ok([serial |-> unwrap_or(raw.serial, gen_serial),
            email |-> email,
            expire |-> raw.expire,
            mx |-> [i \in 1..Len(mx) |-> to_entry(mx[i])],
            mx_prio |-> raw.mx_prio,
            nameserver |-> nameserver,
            nrc_ttl |-> raw.nrc_ttl,
            refresh |-> raw.refresh,
            retry |-> raw.retry,
            srv_prio |-> raw.srv_prio,
            srv_weight |-> raw.srv_weight,
            ttl |-> raw.ttl,
            with_ptr |-> raw.with_ptr])))))

\* The inner loop of parse over one zone's PTR candidates: the pool after the
\* inserts, or the duplicate error.
RECURSIVE insert_ptrs(_, _)
insert_ptrs(ptrs, ips) ==
    IF Len(ptrs) = 0 THEN Ok(ips)
    ELSE IF \E p \in ips : p.ip = ptrs[1].ip THEN Err("DuplicatePtr")
    ELSE insert_ptrs(Tail(ptrs), ips \cup {ptrs[1]})

\* The loop of parse over the zones in order.
RECURSIVE forward_zones(_, _, _, _)
forward_zones(zones, defaults, forward, ips) ==
    IF Len(zones) = 0 THEN Ok([forward |-> forward, ips |-> ips])
    ELSE and_then(parse_forward(zones[1], defaults), LAMBDA z :
         and_then(insert_ptrs(z.ptr, ips), LAMBDA inserted :
            forward_zones(Tail(zones), defaults, Append(forward, z.zone), inserted)))

\* parse: raw is the input text as [decodes, content], content being what the
\* deserializer makes of it (zones in the order the Vec or the map yields them).
parse(raw, gen_serial) ==
    IF ~raw.decodes THEN Err("DecodeError")
    ELSE
    and_then(from_raw(raw.content.defaults, gen_serial), LAMBDA defaults :
    and_then(forward_zones(unwrap_or(raw.content.zone, <<>>), defaults, <<>>, {}),
             LAMBDA fwd :
    and_then(parse_reverse(raw.content.reverse, defaults, fwd.ips), LAMBDA reverse :
        Ok([forward |-> fwd.forward, reverse |-> reverse]))))

(***************************************************************************)
(* serial.rs                                                               *)
(***************************************************************************)
\* A load_serial that parses the text as it stands, to show what C24 rests on.
load_serial_untrimmed(f) ==
    IF ~f.exists THEN <<0, 0>>
    ELSE Bind(ParseU32(f.text), LAMBDA number :
            IF number.ok THEN number.val ELSE <<0, 0>>)

\* file is [exists, text]; a missing file or text that is no u32 gives 0.
load_serial(f) ==
    IF ~f.exists THEN <<0, 0>>
    ELSE Bind(ParseU32(trim(f.text)), LAMBDA number :
            IF number.ok THEN number.val ELSE <<0, 0>>)

\* year * 1_000_000 + month * 10_000 + day * 100, one u32 operation at a time.
date_seed(date, checks) ==
    Bind(U32Op(Big(date[1] * 10, 0), checks), LAMBDA y :
    Bind(U32Op(BigAdd(y.val, Big(0, date[2] * 10000)), checks), LAMBDA ym :
    Bind(U32Op(BigAdd(ym.val, Big(0, date[3] * 100)), checks), LAMBDA ymd :
        [panic |-> y.panic \/ ym.panic \/ ymd.panic, val |-> ymd.val])))

\* calc_serial with Utc::now() = date, in a build with or without overflow
\* checks: [panic, val].
calc_serial(old, date, checks) ==
    Bind(U32Op(BigAdd(old, <<0, 1>>), checks), LAMBDA next :
    Bind(date_seed(date, checks), LAMBDA seed :
        [panic |-> next.panic \/ seed.panic, val |-> BigMax(next.val, seed.val)]))

\* save_serial when fs::write succeeds: the file holds serial.to_string().
save_serial(value) == [exists |-> TRUE, text |-> U32ToStr(value)]

\* What a failed fs::write of text leaves: the file as it was (it could not
\* be opened), or created and truncated and holding the part of the text
\* that write_all got written before it failed, from nothing to all but the
\* last character.
failed_write(f, text) ==
    {f} \cup {[exists |-> TRUE, text |-> SubSeq(text, 1, k)] : k \in 0..(Len(text) - 1)}

(***************************************************************************)
(* Inputs.  Texts, addresses and networks the calls are made with.         *)
(***************************************************************************)
MaxHosts == 2
MaxNets == 2
MaxRuns == 2

ExOrg == <<"e", "x", ".", "o", "r", "g">>
ExOrgDot == <<"e", "x", ".", "o", "r", "g", ".">>
NsFqdn == <<"n", "s", ".", "e", "x", ".", "o", "r", "g", ".">>
NsNoDot == <<"n", "s", ".", "e", "x", ".", "o", "r", "g">>
MxFqdn == <<"m", "x", ".", "e", "x", ".", "o", "r", "g", ".">>
MailRel == <<"m", "a", "i", "l">>
HostWww == <<" ", "w", "w", "w", " ">>
HostWild == <<"*">>
HostApex == <<"@">>
HostFqdn == <<"a", ".", "e", "x", ".", "n", "e", "t", ".">>
AliasW == <<"w">>
SrvSip == <<"_", "s", "i", "p", ".", "_", "t", "c", "p">>
SrvBad == <<"s", "i", "p", ".", "_", "t", "c", "p">>
EmailRaw == <<"a", ".", "b", "@", "e", "x", ".", "o", "r", "g">>
AdminMail == <<"a", "d", "m", "i", "n", "@", "e", "x", "a", "m", "p", "l", "e", ".", "c", "o", "m">>
JohnDoeMail == <<"j", "o", "h", "n", ".", "d", "o", "e", "@", "e", "x", "a", "m", "p", "l", "e", ".", "c", "o", "m">>
MailNoAt == <<"a", ".", "e", "x", ".", "o", "r", "g">>
MailDotted == <<"a", "@", "e", "x", ".", "o", "r", "g", ".">>
MailTwoAt == <<"a", "@", "b", "@", "e", "x", ".", "o", "r", "g">>
ExampleCom == <<"e", "x", "a", "m", "p", "l", "e", ".", "c", "o", "m", ".">>
ExOrgLed == <<" ", "e", "x", ".", "o", "r", "g", ".">>
HostBare == <<"h", "o", "s", "t">>
HostDotLed == <<" ", "h", "o", "s", "t", ".", " ">>
EmailSoa == <<"a", "\\", ".", "b", ".", "e", "x", ".", "o", "r", "g", ".">>

Ip10 == V4(10, 1, 2, 3)
Ip10b == V4(10, 2, 0, 1)
Ip192 == V4(192, 168, 1, 1)
Ip172 == V4(172, 16, 0, 1)
Ip6a == V6(<<253, 0, 0, 1, 0, 0, 0, 0, 0, 0, 0, 0, 0, 0, 0, 1>>)
Ip6b == V6(<<32, 1, 13, 184, 0, 0, 0, 0, 0, 0, 0, 0, 0, 0, 0, 26>>)

Net10 == Net(V4(10, 0, 0, 0), 8)
Net10_1 == Net(V4(10, 1, 0, 0), 16)
Net10Host == Net(V4(10, 1, 2, 3), 20)
Net192 == Net(V4(192, 168, 0, 0), 16)
Net6Fd == Net(V6(<<253, 0, 0, 0, 0, 0, 0, 0, 0, 0, 0, 0, 0, 0, 0, 0>>), 8)
Net6Fd1 == Net(Ip6a, 30)
Nets == {Net10, Net10_1, Net10Host, Net192, Net6Fd, Net6Fd1}

\* Networks of every kind of prefix: octet- and nibble-aligned (with and
\* without host bits in the declared address), unaligned, empty and full.
Ip6c == V6(<<253, 0, 18, 52, 86, 120, 0, 1, 0, 0, 0, 0, 0, 0, 0, 5>>)
Net192_24 == Net(V4(192, 168, 1, 0), 24)
Net192Host == Net(V4(192, 168, 1, 77), 24)
Net10_16 == Net(V4(10, 0, 0, 0), 16)
Net10_23 == Net(V4(10, 1, 2, 0), 23)
Net10_32 == Net(Ip10, 32)
Net4All == Net(V4(0, 0, 0, 0), 0)
Net6Fd64 == Net(V6(<<253, 0, 18, 52, 86, 120, 0, 1, 0, 0, 0, 0, 0, 0, 0, 0>>), 64)
Net6Fd62 == Net(Ip6c, 62)
Net6One == Net(Ip6a, 128)
Net6All == Net(V6(<<0, 0, 0, 0, 0, 0, 0, 0, 0, 0, 0, 0, 0, 0, 0, 0>>), 0)
ZoneNets ==
    Nets \cup {Net192_24, Net192Host, Net10_16, Net10_23, Net10_32, Net4All,
               Net6Fd64, Net6Fd62, Net6One, Net6All}
Addresses == {Ip10, Ip10b, Ip192, Ip172, Ip6a, Ip6b, Ip6c}

\* All sequences of at most n elements of S, no two with the same key: a
\* map in the order its iteration yields the entries.
SeqsUpTo(S, n, key(_)) ==
    UNION {{q \in [1..k -> S] : \A i, j \in 1..k : i < j => key(q[i]) # key(q[j])} :
           k \in 0..n}

(***************************************************************************)
(* Input domains, in the shapes of parser.rs                               *)
(***************************************************************************)
GenSerial == <<20261, 3000>>
DeclaredSerial == <<20250, 10100>>
ZoneSerial == <<20240, 50500>>

\* RawDefaults as decoded; the timers stand for DEFAULT_* or declared values.
RawDefaultsSet ==
    [serial : {None, Some(DeclaredSerial)},
     email : {None, Some(EmailRaw)},
     expire : {100},
     mx : {None, Some(Single(Entry(MxFqdn))),
           Some(Multiple(<<Table(MailRel, None, Some(5))>>))},
     mx_prio : {10},
     nameserver : {None, Some(Single(NsFqdn)), Some(Single(NsNoDot)),
                   Some(Multiple(<<>>))},
     nrc_ttl : {60},
     refresh : {20},
     retry : {10, 20, 30},
     srv_prio : {0},
     srv_weight : {0},
     ttl : {3600},
     with_ptr : BOOLEAN]

\* SessionDefaults as from_raw builds them from defaults that declare no
\* email, with the email field (pub) absent or holding a mailbox in SOA form.
SessionDefaultsSet ==
    {[from_raw(r, GenSerial).val EXCEPT !.email = e] :
        r \in {x \in RawDefaultsSet :
                  x.email = None /\ x.serial = None /\ from_raw(x, GenSerial).ok},
        e \in {None, Some(EmailSoa)}}

PlainDefaults ==
    {d \in SessionDefaultsSet : d.mx = <<>> /\ d.nameserver = <<NsFqdn>>}
NoMxDefaults == {d \in SessionDefaultsSet : d.mx = <<>> /\ d.with_ptr}

\* HostValue::Ip and HostValue::Entry.
IpOnly(ip) == [entry |-> FALSE, ip |-> ip, alias |-> None, ttl |-> None, with_ptr |-> None]
HostEntry(ip, alias, ttl, with_ptr) ==
    [entry |-> TRUE, ip |-> ip, alias |-> alias, ttl |-> ttl, with_ptr |-> with_ptr]

HostNames == {HostWww, HostWild, HostFqdn}
HostValues ==
    {IpOnly(Single(Ip10)),
     IpOnly(Multiple(<<Ip10, Ip6a>>)),
     IpOnly(Multiple(<<Ip10b, Ip10b>>)),
     HostEntry(Single(Ip10b), Some(Single(AliasW)), None, Some(FALSE)),
     HostEntry(Single(Ip192), None, Some(99), Some(TRUE))}
first(pair) == pair[1]
HostMaps == SeqsUpTo(HostNames \X HostValues, MaxHosts, first)

BaseZone ==
    [serial |-> None, email |-> None, expire |-> None, nameserver |-> None,
     nrc_ttl |-> None, refresh |-> None, retry |-> None, ttl |-> None,
     name |-> ExOrg, mx |-> None, mx_prio |-> None, srv_prio |-> None,
     srv_weight |-> None, with_ptr |-> None, hosts |-> None, cname |-> None,
     srv |-> None]

\* Zones that vary the fields of the zone's head ...
ZoneHeads ==
    {[BaseZone EXCEPT !.name = n, !.nameserver = ns, !.mx = mx,
                      !.refresh = t[1], !.retry = t[2], !.email = e] :
        n \in {ExOrg, ExOrgDot},
        ns \in {None, Some(Single(Entry(<<"n", "s">>))), Some(Multiple(<<>>)),
                Some(Multiple(<<Table(NsFqdn, Some(60), None), Entry(NsNoDot)>>))},
        mx \in {None, Some(Single(Entry(<<"m", "x">>))),
                Some(Multiple(<<Table(MxFqdn, None, Some(5))>>))},
        t \in {<<None, None>>, <<None, Some(30)>>, <<Some(5), None>>, <<Some(40), Some(30)>>},
        e \in {None, Some(EmailRaw)}}

\* ... and zones that vary the records declared under it.
SrvEntry(target, port) ==
    [target |-> target, port |-> port, ttl |-> None, prio |-> None, weight |-> None]
ZoneBodies ==
    {[BaseZone EXCEPT !.hosts = Some(h), !.with_ptr = w] :
        h \in HostMaps, w \in {None, Some(FALSE), Some(TRUE)}}
    \cup
    {[BaseZone EXCEPT !.cname = c, !.srv = v] :
        c \in {None, Some(<<<<HostWww, Entry(HostApex)>>>>),
               Some(<<<<AliasW, Table(HostFqdn, Some(30), None)>>>>)},
        v \in {None, Some(<<<<SrvSip, SrvEntry(HostWww, 5060)>>>>),
               Some(<<<<SrvBad, SrvEntry(HostWww, 5060)>>>>)}}

PlainEntry ==
    [serial |-> None, email |-> None, expire |-> None, nameserver |-> None,
     nrc_ttl |-> None, refresh |-> None, retry |-> None, ttl |-> None]
ReverseEntries == {PlainEntry, [PlainEntry EXCEPT !.retry = Some(30)]}
ReverseMaps == SeqsUpTo(Nets \X ReverseEntries, MaxNets, first)

\* Defaults that declare a serial or leave it to the generated one, zones and
\* networks that declare their own serial or email or neither.
SerialDefaults ==
    {[from_raw(r, GenSerial).val EXCEPT !.email = e] :
        r \in {x \in RawDefaultsSet :
                  /\ x.email = None /\ x.mx = None /\ x.retry = 10 /\ x.with_ptr
                  /\ x.nameserver = Some(Single(NsFqdn))},
        e \in {None, Some(EmailSoa)}}
SerialZones ==
    {[BaseZone EXCEPT !.serial = s, !.email = e] :
        s \in {None, Some(ZoneSerial)}, e \in {None, Some(AdminMail), Some(MailNoAt)}}
SerialEntries ==
    {[PlainEntry EXCEPT !.serial = s, !.email = e] :
        s \in {None, Some(ZoneSerial)}, e \in {None, Some(AdminMail)}}
SerialMaps == {<<<<n, e>>>> : n \in {Net10, Net6Fd1}, e \in SerialEntries}

\* Zones that declare or leave out each timer, priority and flag, in these
\* patterns over the eight numbers: none, all, each one alone, all but each
\* one; with records (MX, NS, host, CNAME, SRV) that declare their own ttl,
\* prio and weight or none.
SrvSipUdp == <<"_", "s", "i", "p", ".", "_", "u", "d", "p">>
Declares(on, v) == IF on THEN Some(v) ELSE None
FieldPatterns ==
    {[i \in 1..8 |-> b] : b \in BOOLEAN}
    \cup {[i \in 1..8 |-> i = k] : k \in 1..8}
    \cup {[i \in 1..8 |-> i # k] : k \in 1..8}
OverrideZones ==
    {[BaseZone EXCEPT
        !.expire = Declares(f[1], 200), !.nrc_ttl = Declares(f[2], 61),
        !.refresh = Declares(f[3], 40), !.retry = Declares(f[4], 15),
        !.ttl = Declares(f[5], 7200), !.mx_prio = Declares(f[6], 20),
        !.srv_prio = Declares(f[7], 3), !.srv_weight = Declares(f[8], 4),
        !.with_ptr = w, !.mx = m, !.nameserver = ns,
        !.hosts = Some(<<<<HostWww, IpOnly(Single(Ip10))>>,
                         <<HostApex, HostEntry(Single(Ip192), None, Some(99), Some(TRUE))>>,
                         <<AliasW, HostEntry(Single(Ip10b), None, None, Some(FALSE))>>>>),
        !.cname = Some(<<<<MailRel, Table(HostFqdn, Some(30), None)>>,
                         <<<<"f", "t", "p">>, Entry(HostApex)>>>>),
        !.srv = Some(<<<<SrvSip, SrvEntry(HostWww, 5060)>>,
                       <<SrvSipUdp, [target |-> HostApex, port |-> 5061, ttl |-> Some(88),
                                     prio |-> Some(1), weight |-> Some(9)]>>>>)] :
        f \in FieldPatterns, w \in {None, Some(FALSE), Some(TRUE)},
        m \in {None, Some(Multiple(<<Entry(MxFqdn), Table(MxFqdn, Some(77), None),
                                     Table(MailRel, None, Some(5))>>))},
        ns \in {None, Some(Multiple(<<Entry(NsFqdn), Table(NsFqdn, Some(60), None),
                                      Table(NsNoDot, None, None)>>))}}
OverrideDefaults ==
    {d \in SessionDefaultsSet :
        d.email = Some(EmailSoa) /\ d.retry = 10 /\ d.nameserver = <<NsFqdn>>}

\* Defaults with two nameservers and two MX entries, and the zones of
\* ZoneHeads that declare no timers, to tell replacement from merging.
Ns2Fqdn == <<"n", "s", "2", ".", "e", "x", ".", "n", "e", "t", ".">>
TwoEntryDefaults ==
    {[d EXCEPT !.nameserver = <<Ns2Fqdn, NsFqdn>>,
               !.mx = <<[name |-> MxFqdn, prio |-> Some(5), ttl |-> None],
                        [name |-> HostFqdn, prio |-> None, ttl |-> Some(44)]>>] :
        d \in {x \in OverrideDefaults : x.with_ptr}}
ReplacingZones ==
    {z \in ZoneHeads : z.name = ExOrg /\ z.email = None /\ z.refresh = None /\ z.retry = None}

\* Zones of one host with 0 to 3 addresses and 0 to 2 aliases, under a plain
\* name, the apex, a wildcard and a name that only begins with a star.
HostStarX == <<"*", "x">>
AliasZones ==
    {[BaseZone EXCEPT !.hosts = Some(<<<<n, HostEntry(ips, al, t, w)>>>>)] :
        n \in {HostWww, HostApex, HostWild, HostStarX},
        ips \in {Multiple(<<>>), Single(Ip10), Multiple(<<Ip10, Ip6a>>),
                 Multiple(<<Ip10, Ip10b, Ip192>>)},
        al \in {None, Some(Multiple(<<>>)), Some(Single(AliasW)),
                Some(Multiple(<<AliasW, HostFqdn>>))},
        t \in {None, Some(99)},
        w \in {None, Some(FALSE), Some(TRUE)}}
AliasDefaults == {d \in OverrideDefaults : d.mx = <<>>}

\* Names handed to validate_dns_name: plain, with wildcards in every place,
\* with empty labels in every place, with labels and totals at and over the
\* length limits.
Repeat(c, n) == [i \in 1..n |-> c]
DnsNames ==
    {<<"e", "x", ".", "o", "r", "g", ".">>,
     <<"E", "x", "a", "m", "p", "l", "e", ".", "C", "O", "M", ".">>,
     <<"N", "S", "1", ".", "e", "x", ".", "o", "r", "g", ".">>,
     <<"*", ".", "E", "x", ".", "o", "r", "g", ".">>,
     <<"a", ".", "*", "Z", ".">>,
     <<"*", ".", "e", "x", ".", "o", "r", "g", ".">>,
     <<"*", ".">>,
     <<"a", ".", "*", ".", "o", "r", "g", ".">>,
     <<"*", "a", ".", "o", "r", "g", ".">>,
     <<"a", "*", ".", "o", "r", "g", ".">>,
     <<"a", ".", "b", "*", ".">>,
     <<"e", "x", ".", "o", "r", "g">>,
     <<".", "e", "x", ".", "o", "r", "g", ".">>,
     <<"a", ".", ".", "o", "r", "g", ".">>,
     <<"e", "x", ".", "o", "r", "g", ".", ".">>,
     <<"*", ".", ".">>,
     <<".">>,
     <<".", ".">>,
     <<"-", "a", ".", "o", "r", "g", ".">>,
     <<"a", "-", ".", "o", "r", "g", ".">>,
     <<"a", "_", "b", ".", "o", "r", "g", ".">>,
     <<"a", " ", "b", ".", "o", "r", "g", ".">>,
     <<"a", "-", "b", ".", "c", "1", ".">>,
     Repeat("a", 63) \o <<".">>,
     Repeat("a", 64) \o <<".">>,
     Repeat("a", 63) \o <<".">> \o Repeat("b", 63) \o <<".">> \o Repeat("c", 63)
         \o <<".">> \o Repeat("d", 60) \o <<".">>,
     Repeat("a", 63) \o <<".">> \o Repeat("b", 63) \o <<".">> \o Repeat("c", 63)
         \o <<".">> \o Repeat("d", 61) \o <<".">>,
     <<"*", ".">> \o Repeat("a", 64) \o <<".">>}

\* Arguments of the normalizer: mail addresses, host names and zone names.
Mails ==
    {EmailRaw, AdminMail, JohnDoeMail, MailNoAt, MailDotted, MailTwoAt,
     <<"A", "d", "m", "i", "n", "@", "E", "x", ".", "O", "R", "G">>}
NamesToComplete ==
    {HostApex, HostBare, HostWww, HostDotLed, HostFqdn, HostWild, <<>>, <<" ", "@">>,
     <<"w", "w", "w", "\r", "\n">>, <<"\f", "@", "\r">>, <<"N", "S", "1">>,
     <<VerticalTab, "w", "w", "w", VerticalTab>>, <<VerticalTab, "@">>, <<VerticalTab>>,
     <<"w", "w", "w", ".", VerticalTab>>}
ZonesToComplete == {<<>>, ExOrg, ExOrgDot, ExOrgLed, ExampleCom}

Ptr(name, ip) == [name |-> name, ip |-> ip, ttl |-> 3600]
Pools ==
    {{},
     {Ptr(HostFqdn, Ip10), Ptr(HostFqdn, Ip172), Ptr(HostFqdn, Ip6a)},
     {Ptr(HostFqdn, Ip10), Ptr(HostFqdn, Ip10b), Ptr(HostFqdn, Ip192),
      Ptr(HostFqdn, Ip172), Ptr(HostFqdn, Ip6a), Ptr(HostFqdn, Ip6b)}}

\* Forward zones the documents are made of: each declares an email and a
\* nameserver, and a host with a PTR candidate.
DocZone(name, hosts) ==
    [BaseZone EXCEPT !.name = name, !.email = Some(EmailRaw),
                     !.nameserver = Some(Single(Entry(NsFqdn))), !.hosts = Some(hosts)]
ZoneA == DocZone(ExOrg, <<<<HostWww, IpOnly(Single(Ip10))>>>>)
ZoneB == DocZone(<<"e", "x", ".", "n", "e", "t">>, <<<<HostWww, IpOnly(Single(Ip10))>>>>)
ZoneTwoHosts ==
    DocZone(ExOrg, <<<<HostWww, IpOnly(Single(Ip10))>>, <<HostFqdn, IpOnly(Single(Ip10))>>>>)
ZoneTwice == DocZone(ExOrg, <<<<HostWww, IpOnly(Multiple(<<Ip10, Ip10>>))>>>>)
ZoneNoEmail == [ZoneA EXCEPT !.email = None]
ZoneBadRetry == [ZoneA EXCEPT !.retry = Some(30)]

DocDefaults ==
    {r \in RawDefaultsSet :
        /\ r.mx = None /\ r.with_ptr /\ r.retry \in {10, 30}
        /\ r.nameserver \in {None, Some(Single(NsFqdn))}
        /\ (r.serial # None => r.email = None /\ r.retry = 10)}
DocZones ==
    {None, Some(<<>>), Some(<<ZoneA>>), Some(<<ZoneA, ZoneB>>), Some(<<ZoneB, ZoneA>>),
     Some(<<ZoneTwoHosts>>), Some(<<ZoneTwice>>), Some(<<ZoneNoEmail>>),
     Some(<<ZoneBadRetry>>), Some(<<ZoneBadRetry, ZoneNoEmail>>)}
DocReverse ==
    {None, Some(<<<<Net10, PlainEntry>>>>),
     Some(<<<<Net10, PlainEntry>>, <<Net10_1, PlainEntry>>>>)}

\* Content as decoded, and the input texts: one that does not decode, and
\* one for each Content.
Contents == [defaults : DocDefaults, zone : DocZones, reverse : DocReverse]
NoContent == [defaults |-> CHOOSE r \in DocDefaults : TRUE, zone |-> None, reverse |-> None]
InputTexts ==
    {[decodes |-> FALSE, content |-> NoContent]} \cup
    {[decodes |-> TRUE, content |-> c] : c \in Contents}
\* The texts the runs of the binary read.
RunTexts ==
    {t \in InputTexts :
        /\ t.content.zone \in {None, Some(<<ZoneA>>), Some(<<ZoneA, ZoneB>>)}
        /\ (t.content.reverse # None => t.content.zone = None)}

\* Utc::now() as <<year, month, day>>, and the order of days.
Dates == {<<2025, 1, 25>>, <<2026, 10, 30>>, <<2026, 10, 31>>}
DateLe(a, b) ==
    \/ a[1] < b[1]
    \/ a[1] = b[1] /\ a[2] < b[2]
    \/ a[1] = b[1] /\ a[2] = b[2] /\ a[3] <= b[3]

\* Contents of the serial file a first run may find.
Missing == [exists |-> FALSE, text |-> <<>>]
Holding(text) == [exists |-> TRUE, text |-> text]
SerialFiles ==
    {Missing, Holding(<<>>), Holding(<<"a", "b", "c">>), Holding(<<"+", "7">>),
     Holding(<<" ", "2", "0", "2", "6", "1", "0", "3", "0", "0", "0">> \o <<"\n">>), Holding(<<"2", "0", "2", "6", "1", "0", "3", "0", "9", "9">>),
     Holding(<<"2", "0", "3", "0", "0", "1", "0", "1", "0", "0">>), Holding(<<"4", "2", "9", "4", "9", "6", "7", "2", "9", "4">>),
     Holding(<<"4", "2", "9", "4", "9", "6", "7", "2", "9", "5">>), Holding(<<"4", "2", "9", "4", "9", "6", "7", "2", "9", "6">>),
     Holding(<<VerticalTab, "2", "0", "2", "6", "1", "0", "3", "0", "9", "9">>)}
OldSerials ==
    {<<0, 0>>, <<0, 1>>, <<20250, 12500>>, <<20261, 2999>>, <<20261, 3000>>,
     <<20261, 3001>>, <<20261, 3099>>, <<20261, 3100>>, <<42949, 67294>>, U32Max}

(***************************************************************************)
(* output/unbound.rs, output/nsd.rs: what a rendering writes               *)
(***************************************************************************)
\* The characters of the model, U+0009 to U+000D and U+0020 to U+007E (but
\* U+0060, which no string can hold), in byte order; str::cmp compares bytes.
ByteOrder ==
    <<"\t", "\n", VerticalTab, "\f", "\r",
      " ", "!", "\"", "#", "$", "%", "&", "'", "(", ")", "*", "+", ",",
      "-", ".", "/", "0", "1", "2", "3", "4", "5", "6", "7", "8", "9",
      ":", ";", "<", "=", ">", "?", "@", "A", "B", "C", "D", "E", "F",
      "G", "H", "I", "J", "K", "L", "M", "N", "O", "P", "Q", "R", "S",
      "T", "U", "V", "W", "X", "Y", "Z", "[", "\\", "]", "^", "_",
      "a", "b", "c", "d", "e", "f", "g", "h", "i", "j", "k", "l", "m",
      "n", "o", "p", "q", "r", "s", "t", "u", "v", "w", "x", "y", "z",
      "{", "|", "}", "~">>
byte(c) == CHOOSE i \in 1..Len(ByteOrder) : ByteOrder[i] = c

\* String::cmp: "Less", "Equal" or "Greater", byte by byte, a prefix first.
RECURSIVE str_cmp(_, _)
str_cmp(a, b) ==
    IF Len(a) = 0 /\ Len(b) = 0 THEN "Equal"
    ELSE IF Len(a) = 0 THEN "Less"
    ELSE IF Len(b) = 0 THEN "Greater"
    ELSE IF a[1] = b[1] THEN str_cmp(Tail(a), Tail(b))
    ELSE IF byte(a[1]) < byte(b[1]) THEN "Less" ELSE "Greater"

\* [u8; N]::cmp for two arrays of one length.
RECURSIVE octets_cmp(_, _)
octets_cmp(a, b) ==
    IF Len(a) = 0 THEN "Equal"
    ELSE IF a[1] = b[1] THEN octets_cmp(Tail(a), Tail(b))
    ELSE IF a[1] < b[1] THEN "Less" ELSE "Greater"

\* IpAddr::cmp (derived): every V4 before every V6, then the address bytes.
ip_cmp(a, b) ==
    IF a.v # b.v THEN (IF a.v = 4 THEN "Less" ELSE "Greater")
    ELSE octets_cmp(a.octets, b.octets)

\* The comparison write_nsd sorts a zone's A records with.
nsd_cmp(a, b, zone_name) ==
    IF a.name = zone_name /\ b.name = zone_name THEN "Equal"
    ELSE IF a.name = zone_name THEN "Less"
    ELSE IF b.name = zone_name THEN "Greater"
    ELSE IF str_cmp(a.name, b.name) = "Equal" THEN ip_cmp(a.ip, b.ip)
    ELSE str_cmp(a.name, b.name)

\* sort_unstable_by: the orders of zone.hosts (as permutations of its
\* indices) in which no record is greater than a later one; records that
\* compare equal may come out in any order.
nsd_orders(hosts, zone_name) ==
    {p \in Permutations(1..Len(hosts)) :
        \A i \in 1..Len(hosts) : \A j \in (i + 1)..Len(hosts) :
            nsd_cmp(hosts[p[i]], hosts[p[j]], zone_name) # "Greater"}

\* hosts.sort_by(|a, b| a.name.cmp(&b.name)): a stable sort by name alone;
\* records of one name keep the order they have in zone.hosts.
unbound_order(hosts) ==
    CHOOSE p \in Permutations(1..Len(hosts)) :
        \A i \in 1..Len(hosts) : \A j \in (i + 1)..Len(hosts) :
            \/ str_cmp(hosts[p[i]].name, hosts[p[j]].name) = "Less"
            \/ str_cmp(hosts[p[i]].name, hosts[p[j]].name) = "Equal" /\ p[i] < p[j]

\* The A/AAAA records of a zone in the order generate_unbound writes them.
unbound_a_records(hosts) == [i \in 1..Len(hosts) |-> hosts[unbound_order(hosts)[i]]]

zone_bases(forward, reverse) ==
    [i \in 1..Len(forward) |-> forward[i].base] \o
    [i \in 1..Len(reverse) |-> reverse[i].base]

\* .first().expect("Zone needs one nameserver") of both renderers.
render_panics(forward, reverse) ==
    \E i \in 1..Len(zone_bases(forward, reverse)) :
        Len(zone_bases(forward, reverse)[i].nameserver) = 0

\* files.insert(format!("{master}/{zone_name}zone"), output) for each zone of
\* listed (<<name, serial>> pairs): one file per name, holding the SOA of the
\* last zone of that name.  whole tells that the file holds all of its text.
RECURSIVE nsd_files(_)
nsd_files(listed) ==
    IF Len(listed) = 0 THEN <<>>
    ELSE (IF \E j \in 2..Len(listed) : listed[j][1] = listed[1][1] THEN <<>>
          ELSE <<[path |-> <<"master", listed[1][1] \o <<"z", "o", "n", "e">>>>,
                  names |-> <<listed[1][1]>>, zones |-> <<listed[1]>>,
                  whole |-> TRUE]>>)
         \o nsd_files(Tail(listed))

\* The orders in which a rendering may write its files, each file with the
\* zone names it lists and the <<name, serial>> of the SOA records it holds:
\* the one Unbound text; or zones.conf, which lists the names, and then the
\* zone files in the iteration order of the HashMap they were collected in.
render_targets(format, forward, reverse) ==
    Bind([i \in 1..(Len(forward) + Len(reverse)) |->
             <<zone_bases(forward, reverse)[i].name, zone_bases(forward, reverse)[i].serial>>],
         LAMBDA listed :
        IF format = "unbound"
        THEN {<<[path |-> <<"output">>,
                 names |-> [i \in 1..Len(listed) |-> listed[i][1]], zones |-> listed,
                 whole |-> TRUE]>>}
        ELSE {<<[path |-> <<"zones.conf">>,
                 names |-> [i \in 1..Len(listed) |-> listed[i][1]], zones |-> <<>>,
                 whole |-> TRUE]>> \o
              [i \in 1..Len(nsd_files(listed)) |-> nsd_files(listed)[p[i]]] :
                 p \in Permutations(1..Len(nsd_files(listed)))})

\* What fs::write leaves of a file when it fails after the file was opened:
\* the file truncated and holding a part of its text, from nothing on.  The
\* text names each zone before it gives the zone's SOA record, and goes on
\* after the last SOA record; a name or a record cut short does not count.
\* Of the empty text (a zones.conf of no zone) there is no part.
partly_written(target) ==
    IF target.path = <<"zones.conf">>
    THEN {[target EXCEPT !.names = SubSeq(target.names, 1, j), !.whole = FALSE] :
             j \in (IF Len(target.names) = 0 THEN {} ELSE 0..Len(target.names))}
    ELSE {[target EXCEPT !.names = SubSeq(target.names, 1, jk[1]),
                         !.zones = SubSeq(target.zones, 1, jk[2]),
                         !.whole = FALSE] :
             jk \in {x \in (0..Len(target.names)) \X (0..Len(target.zones)) :
                        x[2] \in {x[1] - 1, x[1]}}}

\* What a write of target that fails may add to the files written: nothing
\* (the file could not be opened) or the file partly written.
left_by_failed_write(target) == {<<>>} \cup {<<part>> : part \in partly_written(target)}

(***************************************************************************)
(* main.rs: one run of the binary after another                            *)
(***************************************************************************)
NoResult == Err("")
NoText == [decodes |-> FALSE, content |-> NoContent]

\* A main that goes on whatever parse returned, to show what C7 rests on.
after_parse_ignoring_error(res) == "render"

\* Where main goes after parse(...)?.
after_parse(res) == IF res.ok THEN "render" ELSE "exit_err"

\* let old_serial = load_serial(path); let serial = calc_serial(old_serial);
LoadCalc ==
    /\ pc = "start"
    /\ old_serial' = load_serial(file)
    /\ \E new \in {calc_serial(load_serial(file), now, overflow_checks)} :
          /\ serial' = new.val
          /\ pc' = IF new.panic THEN "exit_err" ELSE "read"
          /\ failed_at' = IF new.panic THEN "calc_serial" ELSE failed_at
    /\ UNCHANGED <<file, now, doc, parsed, outputs, start, runs, overflow_checks,
                   call, ret>>

\* let content = fs::read_to_string(file)? (or stdin)
ReadInput ==
    /\ pc = "read"
    /\ \E readable \in BOOLEAN, text \in RunTexts :
          IF readable
          THEN doc' = text /\ pc' = "parse" /\ failed_at' = failed_at
          ELSE doc' = doc /\ pc' = "exit_err" /\ failed_at' = "read"
    /\ UNCHANGED <<file, old_serial, serial, now, parsed, outputs, start, runs,
                   overflow_checks, call, ret>>

\* let (forward, reverse) = parse(content.as_str(), serial, cli.input_format)?;
Parse ==
    /\ pc = "parse"
    /\ \E res \in {parse(doc, serial)} :
          /\ parsed' = res
          /\ pc' = after_parse(res)
          /\ failed_at' = IF res.ok THEN failed_at ELSE "parse"
    /\ UNCHANGED <<file, old_serial, serial, now, doc, outputs, start, runs,
                   overflow_checks, call, ret>>

\* match cli.output_format { ... }: the renderer panics on a zone without
\* nameserver, else writes its files one after the other; a failed write
\* ends the run with the earlier files written and the file it was writing
\* untouched or partly written.
Render ==
    /\ pc = "render"
    /\ \E format \in {"unbound", "nsd"} :
       \E targets \in render_targets(format, parsed.val.forward, parsed.val.reverse) :
          IF render_panics(parsed.val.forward, parsed.val.reverse)
          THEN outputs' = outputs /\ pc' = "exit_err" /\ failed_at' = "render"
          ELSE \E n \in 0..Len(targets) :
                  IF n = Len(targets)
                  THEN outputs' = outputs \o targets /\ pc' = "save"
                       /\ failed_at' = failed_at
                  ELSE \E left \in left_by_failed_write(targets[n + 1]) :
                          /\ outputs' = outputs \o SubSeq(targets, 1, n) \o left
                          /\ pc' = "exit_err" /\ failed_at' = "render"
    /\ UNCHANGED <<file, old_serial, serial, now, doc, parsed, start, runs,
                   overflow_checks, call, ret>>

\* save_serial(path, serial)
Save ==
    /\ pc = "save"
    /\ \/ file' = save_serial(serial) /\ pc' = "exit_ok" /\ failed_at' = failed_at
       \/ /\ file' \in failed_write(file, U32ToStr(serial))
          /\ pc' = "exit_err" /\ failed_at' = "save"
    /\ UNCHANGED <<old_serial, serial, now, doc, parsed, outputs, start, runs,
                   overflow_checks, call, ret>>

\* The binary is started again, the same day or a later one.
NextRun ==
    /\ pc \in {"exit_ok", "exit_err"}
    /\ runs < MaxRuns
    /\ runs' = runs + 1
    /\ now' \in {d \in Dates : DateLe(now, d)}
    /\ pc' = "start"
    /\ old_serial' = <<0, 0>>
    /\ serial' = <<0, 0>>
    /\ doc' = NoText
    /\ parsed' = NoResult
    /\ failed_at' = ""
    /\ start' = [file |-> file, outputs |-> outputs]
    /\ UNCHANGED <<file, outputs, overflow_checks, call, ret>>

Init ==
    /\ file \in SerialFiles
    /\ now \in Dates
    /\ overflow_checks \in BOOLEAN
    /\ pc = "start"
    /\ old_serial = <<0, 0>>
    /\ serial = <<0, 0>>
    /\ doc = NoText
    /\ parsed = NoResult
    /\ outputs = <<>>
    /\ start = [file |-> file, outputs |-> <<>>]
    /\ failed_at = ""
    /\ runs = 1
    /\ call = [fn |-> "main"]
    /\ ret = NoResult

Next == LoadCalc \/ ReadInput \/ Parse \/ Render \/ Save \/ NextRun

Spec == Init /\ [][Next]_vars

(***************************************************************************)
(* The library: one call of a public function with given arguments         *)
(***************************************************************************)
FromRawCalls ==
    {[fn |-> "from_raw", raw |-> r, gen_serial |-> GenSerial] : r \in RawDefaultsSet}
ParseForwardCalls ==
    {[fn |-> "parse_forward", raw |-> z, defaults |-> d] :
        z \in ZoneHeads, d \in SessionDefaultsSet}
    \cup
    {[fn |-> "parse_forward", raw |-> z, defaults |-> d] :
        z \in ZoneBodies, d \in PlainDefaults}
    \cup
    {[fn |-> "parse_forward", raw |-> z, defaults |-> d] :
        z \in SerialZones, d \in SerialDefaults}
    \cup
    {[fn |-> "parse_forward", raw |-> z, defaults |-> d] :
        z \in OverrideZones, d \in OverrideDefaults}
    \cup
    {[fn |-> "parse_forward", raw |-> z, defaults |-> d] :
        z \in ReplacingZones, d \in TwoEntryDefaults}
    \cup
    {[fn |-> "parse_forward", raw |-> z, defaults |-> d] :
        z \in AliasZones, d \in AliasDefaults}
\* prev is empty in a first call; a second call over the same declarations
\* in another iteration order carries the first order and its result.
ParseReverseCalls ==
    {[fn |-> "parse_reverse", raw |-> r, defaults |-> d, ptrs |-> pool, prev |-> None] :
        r \in {None} \cup {Some(m) : m \in ReverseMaps}, d \in NoMxDefaults,
        pool \in Pools}
    \cup
    {[fn |-> "parse_reverse", raw |-> Some(m), defaults |-> d, ptrs |-> {}, prev |-> None] :
        m \in SerialMaps, d \in SerialDefaults}
CalcSerialCalls ==
    {[fn |-> "calc_serial", old_serial |-> old, now |-> date, overflow_checks |-> checks] :
        old \in OldSerials, date \in Dates, checks \in BOOLEAN}
ParseCalls ==
    {[fn |-> "parse", raw |-> text, serial |-> GenSerial] : text \in InputTexts}
ParseEmailCalls == {[fn |-> "parse_email", raw |-> m] : m \in Mails}
\* prev is empty in a first call; a caller that completes a completed name
\* again under zone2 puts the first call and its result there.
ParseHostStrCalls ==
    {[fn |-> "parse_host_str", name |-> n, zone_name |-> z, zone2 |-> z2, prev |-> None] :
        n \in NamesToComplete, z \in ZonesToComplete, z2 \in ZonesToComplete}
\* Numbers around the limits of a TTL, of u32 and beyond, in each width.
Magnitudes ==
    {<<0, 0>>, <<0, 1>>, <<0, 3600>>, <<21474, 83646>>, TtlMax, <<21474, 83648>>,
     U32Max, TwoPow32, <<42949, 67297>>, <<42949, 70896>>, <<85899, 34597>>}
Numbers ==
    {[width |-> "u32", neg |-> FALSE, mag |-> m] : m \in {x \in Magnitudes : Le(x, U32Max)}}
    \cup {[width |-> "u64", neg |-> FALSE, mag |-> m] : m \in Magnitudes}
    \cup {[width |-> "i64", neg |-> FALSE, mag |-> m] : m \in Magnitudes}
    \cup {[width |-> "i64", neg |-> TRUE, mag |-> m] : m \in Magnitudes \ {<<0, 0>>}}
\* A zone's A/AAAA records as parse_hosts leaves them, in any order (the
\* hosts come out of a HashMap): two at the apex, three of one name, a
\* wildcard, IPv4 and IPv6.
MaxRecords == 3
ARecords ==
    {[name |-> ExOrgDot, ip |-> Ip10, ttl |-> 3600],
     [name |-> ExOrgDot, ip |-> Ip6a, ttl |-> 3600],
     [name |-> <<"a", ".">> \o ExOrgDot, ip |-> Ip10b, ttl |-> 3600],
     [name |-> <<"a", ".">> \o ExOrgDot, ip |-> Ip10, ttl |-> 3600],
     [name |-> <<"a", ".">> \o ExOrgDot, ip |-> Ip6a, ttl |-> 3600],
     [name |-> <<"w", "w", "w", ".">> \o ExOrgDot, ip |-> Ip192, ttl |-> 3600],
     [name |-> <<"*", ".">> \o ExOrgDot, ip |-> Ip172, ttl |-> 3600]}
RECURSIVE RecordLists(_)
RecordLists(n) ==
    IF n = 0 THEN {<<>>}
    ELSE RecordLists(n - 1) \cup
         {Append(l, r) : l \in {x \in RecordLists(n - 1) : Len(x) = n - 1},
                         r \in ARecords}
RenderedZones ==
    {[name |-> ExOrgDot, hosts |-> l] :
        l \in {x \in RecordLists(MaxRecords) :
                  \A i \in 1..Len(x) : \A j \in 1..Len(x) : i # j => x[i] # x[j]}}
WriteNsdCalls == {[fn |-> "write_nsd", zone |-> z] : z \in RenderedZones}
GenerateUnboundCalls == {[fn |-> "generate_unbound", zone |-> z] : z \in RenderedZones}
\* Serial files a caller of load_serial may meet, and serials to save.
LoadFiles ==
    SerialFiles \cup
    {Holding(<<"0">>), Holding(<<"0", "0", "7">>), Holding(<<"-", "1">>), Holding(<<"+">>),
     Holding(<<"1", "2", " ", "3">>), Holding(<<"\t", "4", "2", "\n">>), Holding(<<" ", "\n">>),
     Holding(<<"0", "4", "2", "9", "4", "9", "6", "7", "2", "9", "5">>),
     Holding(<<"1", "0", "0", "0", "0", "0", "0", "0", "0", "0", "0">>),
     Holding(<<"1", "e", "3">>), Holding(<<"0", "x", "1", "0">>),
     Holding(<<"1", "2", "3", "4", "5", "\r", "\n">>), Holding(<<"\f", "7">>),
     Holding(<<"2", "0", "2">>), Holding(<<"7", VerticalTab>>),
     Holding(<<VerticalTab, "\n", "2", "0", "2", "6", "1", "0", "3", "0", "0", "0", " ">>),
     Holding(<<"7", VerticalTab, "8">>)}
SavedSerials == OldSerials \cup {<<0, 7>>, <<1, 0>>, <<1, 5>>, <<10000, 50>>, <<42949, 0>>}
LoadSerialCalls == {[fn |-> "load_serial", found |-> f, saved |-> None] : f \in LoadFiles}
SaveSerialCalls ==
    {[fn |-> "save_serial", found |-> f, serial |-> v] :
        f \in {Missing, Holding(<<"a", "b", "c">>), Holding(<<"2", "0", "2", "6", "1", "0", "3", "0", "9", "9">>)},
        v \in SavedSerials}
DeserializeTtlCalls == {[fn |-> "deserialize_ttl", number |-> n] : n \in Numbers}
ValidateDnsNameCalls == {[fn |-> "validate_dns_name", name |-> n] : n \in DnsNames}
CreateReverseZoneNameCalls ==
    {[fn |-> "create_reverse_zone_name", net |-> n] : n \in ZoneNets}

Returns(value) ==
    /\ pc = "call"
    /\ ret' = value
    /\ pc' = "returned"
    /\ UNCHANGED <<file, old_serial, serial, now, doc, parsed, outputs, start,
                   failed_at, runs, overflow_checks, call>>

CallFromRaw ==
    /\ call.fn = "from_raw"
    /\ Returns(from_raw(call.raw, call.gen_serial))

CallParseForward ==
    /\ call.fn = "parse_forward"
    /\ Returns(parse_forward(call.raw, call.defaults))

CallParseReverse ==
    /\ call.fn = "parse_reverse"
    /\ Returns(parse_reverse(call.raw, call.defaults, call.ptrs))

\* raw.unwrap_or_default().into_iter(): the HashMap yields the same
\* declarations in another order.
ParseReverseReordered ==
    /\ pc = "returned"
    /\ call.fn = "parse_reverse"
    /\ call.prev = None
    /\ IsSome(call.raw)
    /\ \E p \in Permutations(1..Len(call.raw[1])) :
          /\ \E i \in 1..Len(call.raw[1]) : p[i] # i
          /\ call' = [call EXCEPT
                        !.raw = Some([i \in 1..Len(call.raw[1]) |-> call.raw[1][p[i]]]),
                        !.prev = Some([pairs |-> call.raw[1], result |-> ret])]
    /\ pc' = "call"
    /\ ret' = NoResult
    /\ UNCHANGED <<file, old_serial, serial, now, doc, parsed, outputs, start,
                   failed_at, runs, overflow_checks>>

CallCalcSerial ==
    /\ call.fn = "calc_serial"
    /\ Returns(calc_serial(call.old_serial, call.now, call.overflow_checks))

CallParse ==
    /\ call.fn = "parse"
    /\ Returns(parse(call.raw, call.serial))

CallParseEmail ==
    /\ call.fn = "parse_email"
    /\ Returns(parse_email(call.raw))

CallParseHostStr ==
    /\ call.fn = "parse_host_str"
    /\ Returns(parse_host_str(call.name, call.zone_name))

\* The caller hands the completed name to parse_host_str once more, under
\* zone2.
ParseHostStrAgain ==
    /\ pc = "returned"
    /\ call.fn = "parse_host_str"
    /\ call.prev = None
    /\ ret.ok
    /\ call' = [fn |-> "parse_host_str", name |-> ret.val, zone_name |-> call.zone2,
                zone2 |-> call.zone2,
                prev |-> Some([name |-> call.name, zone_name |-> call.zone_name,
                               result |-> ret.val])]
    /\ pc' = "call"
    /\ ret' = NoResult
    /\ UNCHANGED <<file, old_serial, serial, now, doc, parsed, outputs, start,
                   failed_at, runs, overflow_checks>>

CallCreateReverseZoneName ==
    /\ call.fn = "create_reverse_zone_name"
    /\ Returns(create_reverse_zone_name(call.net))

\* write_nsd: each PTR record of a reverse zone is named by ip_name with the
\* zone's split; the record's address is one the zone's network contains.
ThenIpName ==
    /\ pc = "returned"
    /\ call.fn = "create_reverse_zone_name"
    /\ \E address \in Addresses :
          /\ contains(call.net, address)
          /\ call' = [fn |-> "ip_name", address |-> address, split |-> ret.split,
                      net |-> call.net, zone |-> ret.name]
    /\ pc' = "call"
    /\ ret' = NoResult
    /\ UNCHANGED <<file, old_serial, serial, now, doc, parsed, outputs, start,
                   failed_at, runs, overflow_checks>>

CallIpName ==
    /\ call.fn = "ip_name"
    /\ Returns(ip_name(call.address, call.split))

CallValidateDnsName ==
    /\ call.fn = "validate_dns_name"
    /\ Returns(validate_dns_name(call.name))

CallDeserializeTtl ==
    /\ call.fn = "deserialize_ttl"
    /\ Returns(deserialize_ttl(call.number))

\* The A/AAAA lines write_nsd writes for one forward zone, in order.
CallWriteNsd ==
    /\ call.fn = "write_nsd"
    /\ \E p \in nsd_orders(call.zone.hosts, call.zone.name) :
          Returns([i \in 1..Len(call.zone.hosts) |-> call.zone.hosts[p[i]]])

\* The A/AAAA lines generate_unbound writes for one forward zone, in order.
CallGenerateUnbound ==
    /\ call.fn = "generate_unbound"
    /\ Returns(unbound_a_records(call.zone.hosts))

CallLoadSerial ==
    /\ call.fn = "load_serial"
    /\ Returns(load_serial(file))

\* save_serial: fs::write succeeds and the file holds the serial, or fails.
CallSaveSerial ==
    /\ call.fn = "save_serial"
    /\ pc = "call"
    /\ \/ file' = save_serial(call.serial) /\ ret' = Ok(<<>>)
       \/ file' \in failed_write(file, U32ToStr(call.serial)) /\ ret' = Err("Io")
    /\ pc' = "returned"
    /\ UNCHANGED <<old_serial, serial, now, doc, parsed, outputs, start,
                   failed_at, runs, overflow_checks, call>>

\* load_serial on the file a save_serial left; saved is what was written.
ThenLoadSerial ==
    /\ pc = "returned"
    /\ call.fn = "save_serial"
    /\ call' = [fn |-> "load_serial", found |-> file,
                saved |-> IF ret.ok THEN Some(call.serial) ELSE None]
    /\ pc' = "call"
    /\ ret' = NoResult
    /\ UNCHANGED <<file, old_serial, serial, now, doc, parsed, outputs, start,
                   failed_at, runs, overflow_checks>>

InitLib ==
    /\ \/ call \in FromRawCalls
       \/ call \in ParseForwardCalls
       \/ call \in ParseReverseCalls
       \/ call \in CalcSerialCalls
       \/ call \in ParseCalls
       \/ call \in ParseEmailCalls
       \/ call \in ParseHostStrCalls
       \/ call \in CreateReverseZoneNameCalls
       \/ call \in ValidateDnsNameCalls
       \/ call \in DeserializeTtlCalls
       \/ call \in LoadSerialCalls
       \/ call \in WriteNsdCalls
       \/ call \in GenerateUnboundCalls
       \/ call \in SaveSerialCalls
    /\ pc = "call"
    /\ ret = NoResult
    /\ file = (IF call.fn \in {"load_serial", "save_serial"} THEN call.found ELSE Missing)
    /\ now = <<2026, 10, 30>>
    /\ overflow_checks = FALSE
    /\ old_serial = <<0, 0>>
    /\ serial = <<0, 0>>
    /\ doc = NoText
    /\ parsed = NoResult
    /\ outputs = <<>>
    /\ start = [file |-> Missing, outputs |-> <<>>]
    /\ failed_at = ""
    /\ runs = 1

NextLib ==
    \/ CallFromRaw \/ CallParseForward \/ CallParseReverse \/ CallCalcSerial
    \/ CallParse \/ CallParseEmail \/ CallParseHostStr \/ ParseHostStrAgain
    \/ CallCreateReverseZoneName \/ ThenIpName \/ CallIpName
    \/ CallValidateDnsName \/ CallDeserializeTtl
    \/ CallLoadSerial \/ CallSaveSerial \/ ThenLoadSerial
    \/ CallWriteNsd \/ CallGenerateUnbound \/ ParseReverseReordered

SpecLib == InitLib /\ [][NextLib]_vars

(***************************************************************************)
(* Properties.  What the checks are stated with: the call that returned,   *)
(* and address arithmetic bit by bit, independent of the byte masks above. *)
(***************************************************************************)
Returned(fn) == pc = "returned" /\ call.fn = fn

\* Bit k (from 0, most significant first) of an address.
AddrBit(octets, k) == (octets[(k \div 8) + 1] \div (2 ^ (7 - (k % 8)))) % 2

\* The address lies in the network's range: same family, same leading bits.
Covers(net, ip) ==
    /\ net.v = ip.v
    /\ \A k \in 0..(net.prefix - 1) : AddrBit(net.octets, k) = AddrBit(ip.octets, k)

\* Two networks of one family share an address: one range lies in the other.
Intersect(a, b) ==
    /\ a.v = b.v
    /\ \A k \in 0..((IF a.prefix < b.prefix THEN a.prefix ELSE b.prefix) - 1) :
          AddrBit(a.octets, k) = AddrBit(b.octets, k)

DeclaredNets == [i \in 1..Len(unwrap_or(call.raw, <<>>)) |-> unwrap_or(call.raw, <<>>)[i][1]]
DeclaredEntries == [i \in 1..Len(unwrap_or(call.raw, <<>>)) |-> unwrap_or(call.raw, <<>>)[i][2]]
SomeIntersect(nets) ==
    \E i, j \in 1..Len(nets) : i < j /\ Intersect(nets[i], nets[j])

\* The PTR candidates the hosts of a document's zones yield, zone after zone.
HostCandidates(zone, with_ptr) ==
    parse_hosts(zone.hosts, zone.name \o <<".">>, 0, unwrap_or(zone.with_ptr, with_ptr)).val.ptr
DocCandidates(content) ==
    concat_all([i \in 1..Len(unwrap_or(content.zone, <<>>)) |->
                   HostCandidates(unwrap_or(content.zone, <<>>)[i], content.defaults.with_ptr)])
YieldsDuplicatePtr(candidates) ==
    \E i, j \in 1..Len(candidates) : i < j /\ candidates[i].ip = candidates[j].ip

\* A document with nothing else to reject: timers in order, a valid email
\* and a nameserver declared by every zone, valid default nameservers, no
\* reverse networks.
NothingElseToReject(content) ==
    /\ content.defaults.retry < content.defaults.refresh
    /\ content.defaults.email = None
    /\ content.defaults.nameserver \in {None, Some(Single(NsFqdn))}
    /\ content.reverse = None
    /\ \A i \in 1..Len(unwrap_or(content.zone, <<>>)) :
          /\ unwrap_or(content.zone, <<>>)[i].retry = None
          /\ unwrap_or(content.zone, <<>>)[i].refresh = None
          /\ unwrap_or(content.zone, <<>>)[i].email = Some(EmailRaw)
          /\ unwrap_or(content.zone, <<>>)[i].nameserver = Some(Single(Entry(NsFqdn)))

\* C1: when two hosts (in different zones, in one zone, or one host listing
\* the address twice) each yield a PTR candidate for the same address, parse
\* fails with the duplicate-PTR error.
C1_DuplicatePtrRejected ==
    (/\ Returned("parse")
     /\ call.raw.decodes
     /\ NothingElseToReject(call.raw.content)
     /\ YieldsDuplicatePtr(DocCandidates(call.raw.content)))
        => (~ret.ok /\ ret.err = "DuplicatePtr")

\* C2: after parse_reverse succeeds, a pooled PTR candidate is in the PTR set
\* of a reverse zone exactly when the zone's declared network contains its
\* address; it is in at most one zone, and a candidate no network contains
\* is in none, without error.
C2_PtrClaimedIffContained ==
    (Returned("parse_reverse") /\ ret.ok) =>
        /\ Len(ret.val) = Len(DeclaredNets)
        /\ \A i \in 1..Len(ret.val) :
              ret.val[i].ptr = {p \in call.ptrs : Covers(DeclaredNets[i], p.ip)}
        /\ \A p \in call.ptrs :
              Cardinality({i \in 1..Len(ret.val) : p \in ret.val[i].ptr}) <= 1

\* Two zones returned, each with a claimed candidate, and a candidate of the
\* pool that no zone took.
C2_Witness ==
    /\ Returned("parse_reverse") /\ ret.ok
    /\ Len(ret.val) = 2
    /\ ret.val[1].ptr # {} /\ ret.val[2].ptr # {}
    /\ \E p \in call.ptrs : \A i \in 1..Len(ret.val) : p \notin ret.val[i].ptr

\* C3 as stated: whenever two declared networks of one family intersect,
\* parse_reverse fails with the overlap error, whichever comes first (looked
\* at here with defaults that supply an email and a nameserver).
C3_AlwaysOverlapError ==
    (/\ Returned("parse_reverse")
     /\ IsSome(call.defaults.email) /\ Len(call.defaults.nameserver) > 0
     /\ SomeIntersect(DeclaredNets))
        => (~ret.ok /\ ret.err = "NetworksOverlap")

\* A declaration's own checks, made before the next declaration is looked at.
OwnChecksPass(net, entry, defaults) ==
    /\ ~retry_not_less(entry, defaults)
    /\ zone_email(entry.email, defaults).ok
    /\ parse_ns(entry.nameserver, create_reverse_zone_name(net).name,
                unwrap_or(entry.ttl, defaults.ttl), defaults.nameserver).ok

\* The first declaration, in processing order, that intersects an earlier one.
FirstClash(nets, k) ==
    /\ \E i \in 1..(k - 1) : Intersect(nets[i], nets[k])
    /\ \A j \in 1..(k - 1) : \A i \in 1..(j - 1) : ~Intersect(nets[i], nets[j])

\* C3, amended: parse_reverse fails whenever two declared networks of one
\* family intersect; the error is the overlap error when every declaration
\* processed before the later network of the first intersecting pair passes
\* its own checks (else that declaration's error comes first); networks that
\* are pairwise disjoint or of different families are never rejected for
\* overlap.
C3_OverlapRejected ==
    Returned("parse_reverse") =>
        /\ SomeIntersect(DeclaredNets) => ~ret.ok
        /\ ret.err = "NetworksOverlap" => SomeIntersect(DeclaredNets)
        /\ \A k \in 1..Len(DeclaredNets) :
              (/\ FirstClash(DeclaredNets, k)
               /\ \A i \in 1..(k - 1) :
                     OwnChecksPass(DeclaredNets[i], DeclaredEntries[i], call.defaults))
                 => ret.err = "NetworksOverlap"

\* The narrower network was accepted first, the wider one is rejected.
C3_Witness ==
    /\ Returned("parse_reverse")
    /\ Len(DeclaredNets) = 2
    /\ DeclaredNets[1] = Net10_1 /\ DeclaredNets[2] = Net10
    /\ ret.err = "NetworksOverlap"

\* The value a run reads from the serial file.
Stored(f) == load_serial(f)

\* C4: across runs the value stored in the serial file never decreases, and
\* after a run that completes it is greater than the value the run found
\* (looked at here in the runs whose write of the serial file does not fail).
C4_SerialFileIncreases ==
    failed_at # "save" =>
        /\ Le(Stored(start.file), Stored(file))
        /\ pc = "exit_ok" => Lt(Stored(start.file), Stored(file))

\* C5: for every 32-bit old serial, calc_serial returns a 32-bit value
\* greater than it.
C5_CalcSerialGreater ==
    Returned("calc_serial") =>
        /\ ~ret.panic
        /\ Le(ret.val, U32Max)
        /\ Lt(call.old_serial, ret.val)

\* year * 1000000 + month * 10000 + day * 100 in exact arithmetic.
Seed(date) == Big(date[1] * 10, date[2] * 10000 + date[3] * 100)

\* C6: calc_serial(previous) is max(previous + 1, seed): the seed when
\* previous + 1 is below it, else previous + 1.
C6_CalcSerialIsMax ==
    Returned("calc_serial") =>
        /\ ~ret.panic
        /\ ret.val = BigMax(BigAdd(call.old_serial, <<0, 1>>), Seed(call.now))

\* C7: when parse fails in a run, no zone is returned, no output is written
\* and the serial file keeps what it held before the run.
C7_ParseFailureLeavesNothing ==
    (~parsed.ok /\ failed_at = "parse") =>
        /\ pc = "exit_err"
        /\ parsed.val = <<>>
        /\ outputs = start.outputs
        /\ file = start.file

\* A later run whose document has zones failed in parse, with a serial file
\* and outputs left by the run before.
C7_Witness ==
    /\ pc = "exit_err" /\ failed_at = "parse"
    /\ runs = 2
    /\ doc.decodes /\ doc.content.zone # None
    /\ start.file.exists /\ Len(start.outputs) > 0

\* C8: every ForwardZone of a successful result has at least one NS record.
C8_ForwardZoneHasNs ==
    (Returned("parse_forward") /\ ret.ok) =>
        Len(ret.val.zone.base.nameserver) >= 1

\* The field of a zone or network declaration, else the default's.
Effective(entry_value, default_value) ==
    IF entry_value = None THEN default_value ELSE entry_value[1]
RetryTooLarge(entry, defaults) ==
    Effective(entry.retry, defaults.retry) >= Effective(entry.refresh, defaults.refresh)

\* C9: retry < refresh in every zone of a successful result; retry >= refresh
\* is rejected in the global defaults, and for a zone's effective values
\* after its own overrides.
C9_RetryLessThanRefresh ==
    /\ Returned("from_raw") =>
          /\ call.raw.retry >= call.raw.refresh => ~ret.ok
          /\ ret.ok => ret.val.retry < ret.val.refresh
    /\ Returned("parse_forward") =>
          /\ RetryTooLarge(call.raw, call.defaults) => ~ret.ok
          /\ ret.ok => ret.val.zone.base.retry < ret.val.zone.base.refresh
    /\ Returned("parse_reverse") =>
          /\ (\E i \in 1..Len(DeclaredEntries) :
                 RetryTooLarge(DeclaredEntries[i], call.defaults)) => ~ret.ok
          /\ ret.ok => \A i \in 1..Len(ret.val) :
                          ret.val[i].base.retry < ret.val[i].base.refresh
    /\ Returned("parse") =>
          /\ call.raw.content.defaults.retry >= call.raw.content.defaults.refresh => ~ret.ok
          /\ (\E i \in 1..Len(unwrap_or(call.raw.content.zone, <<>>)) :
                 RetryTooLarge(unwrap_or(call.raw.content.zone, <<>>)[i],
                               call.raw.content.defaults)) => ~ret.ok

\* Defaults that pass, and a zone that would resolve but for the retry or
\* refresh it declares itself.
C9_Witness ==
    /\ Returned("parse_forward")
    /\ call.defaults.retry < call.defaults.refresh
    /\ IsSome(call.defaults.email) /\ Len(call.defaults.nameserver) > 0
    /\ call.raw.email = None
    /\ RetryTooLarge(call.raw, call.defaults)
    /\ ret.err = "RetryNotLessThanRefresh"

AllEndWithDot(records, field(_)) ==
    \A i \in 1..Len(records) : ends_with(field(records[i]), ".")
NameOf(record) == record.name
TargetOf(record) == record.target

\* C10: in a successful result every record name and target ends with '.',
\* for records a zone declares and for NS and MX records taken from the
\* defaults.
C10_NamesEndWithDot ==
    (Returned("parse_forward") /\ ret.ok) =>
        /\ AllEndWithDot(ret.val.zone.base.nameserver, NameOf)
        /\ AllEndWithDot(ret.val.zone.mx, NameOf)
        /\ AllEndWithDot(ret.val.zone.hosts, NameOf)
        /\ AllEndWithDot(ret.val.zone.cname, NameOf)
        /\ AllEndWithDot(ret.val.zone.cname, TargetOf)
        /\ AllEndWithDot(ret.val.zone.srv, NameOf)
        /\ AllEndWithDot(ret.val.zone.srv, TargetOf)
        /\ AllEndWithDot(ret.val.ptr, NameOf)

\* s ends with the text suf.
EndsWithText(s, suf) ==
    Len(s) >= Len(suf) /\ SubSeq(s, Len(s) - Len(suf) + 1, Len(s)) = suf

InAddrArpaText == <<"i", "n", "-", "a", "d", "d", "r", ".", "a", "r", "p", "a", ".">>
Ip6ArpaText == <<"i", "p", "6", ".", "a", "r", "p", "a", ".">>
ArpaText(net) == IF net.v = 4 THEN InAddrArpaText ELSE Ip6ArpaText

\* C11: every zone name of a successful result ends with '.': parse_forward
\* gives the declared name with a '.' appended when it lacks one and
\* unchanged when it has one, and create_reverse_zone_name gives a name that
\* ends in "in-addr.arpa." for an IPv4 and in "ip6.arpa." for an IPv6 network.
C11_ZoneNamesEndWithDot ==
    /\ (Returned("parse_forward") /\ ret.ok) =>
          /\ ends_with(ret.val.zone.base.name, ".")
          /\ ends_with(call.raw.name, ".") => ret.val.zone.base.name = call.raw.name
          /\ ~ends_with(call.raw.name, ".") =>
                ret.val.zone.base.name = call.raw.name \o <<".">>
    /\ (Returned("parse_reverse") /\ ret.ok) =>
          \A i \in 1..Len(ret.val) :
              EndsWithText(ret.val[i].base.name, ArpaText(DeclaredNets[i]))
    /\ Returned("create_reverse_zone_name") =>
          EndsWithText(ret.name, ArpaText(call.net))

\* A forward zone declared without the trailing dot resolved.
C11_Witness ==
    /\ Returned("parse_forward") /\ ret.ok
    /\ call.raw.name = ExOrg
    /\ ret.val.zone.base.name = ExOrgDot

\* The place of the first '@' of a text that has one, the text before it with
\* a backslash put before every '.', and the text after it.
AtPlace(mail) ==
    CHOOSE i \in 1..Len(mail) : mail[i] = "@" /\ \A j \in 1..(i - 1) : mail[j] # "@"
EscapedLocal(mail) ==
    concat_all([i \in 1..(AtPlace(mail) - 1) |->
                   IF mail[i] = "." THEN <<"\\", ".">> ELSE <<mail[i]>>])
DomainOf(mail) == SubSeq(mail, AtPlace(mail) + 1, Len(mail))
SoaForm(mail) ==
    EscapedLocal(mail) \o <<".">> \o DomainOf(mail) \o
    (IF ends_with(DomainOf(mail), ".") THEN <<>> ELSE <<".">>)

\* C12: for a valid mail address local@domain, parse_email returns Ok with
\* local, every '.' of it escaped as '\.', then '.', then domain, then a '.'
\* unless domain ends with one.
C12_ParseEmailConverts ==
    (Returned("parse_email") /\ validate_email(call.raw).ok) =>
        (ret.ok /\ ret.val = SoaForm(call.raw))

\* A text without the whitespace around it.
Inked(s) == {i \in 1..Len(s) : s[i] \notin Whitespace}
Lowest(S) == CHOOSE i \in S : \A j \in S : i <= j
Highest(S) == CHOOSE i \in S : \A j \in S : j <= i
Strip(s) == IF Inked(s) = {} THEN <<>> ELSE SubSeq(s, Lowest(Inked(s)), Highest(Inked(s)))

\* C13: parse_host_str(name, zone), name taken without the whitespace around
\* it: the name itself if it ends with '.', whatever zone is; else a failure
\* if zone is empty; else zone if the name is "@"; else name, '.', zone.
C13_ParseHostStrCases ==
    Returned("parse_host_str") =>
        /\ ends_with(Strip(call.name), ".") => ret = Ok(Strip(call.name))
        /\ (~ends_with(Strip(call.name), ".") /\ call.zone_name = <<>>) => ~ret.ok
        /\ (~ends_with(Strip(call.name), ".") /\ call.zone_name # <<>>
            /\ Strip(call.name) = <<"@">>) => ret = Ok(call.zone_name)
        /\ (~ends_with(Strip(call.name), ".") /\ call.zone_name # <<>>
            /\ Strip(call.name) # <<"@">>) =>
                ret = Ok(Strip(call.name) \o <<".">> \o call.zone_name)

\* The apex marker, with whitespace around it, was completed to the zone.
C13_Witness ==
    /\ Returned("parse_host_str")
    /\ call.name = <<" ", "@">> /\ call.zone_name = ExOrgDot
    /\ ret = Ok(ExOrgDot)

\* The call is the second of a chain: its name is what a first call, made
\* under a zone ending with '.', returned.
Recompleted ==
    /\ Returned("parse_host_str")
    /\ IsSome(call.prev)
    /\ ends_with(call.prev[1].zone_name, ".")

\* C14 as stated: for every name and every zone ending with '.', completing
\* the completed name again, under any zone, returns it unchanged.
C14_CompletionIdempotent ==
    Recompleted => ret = Ok(call.prev[1].result)

\* C14, amended: for every name and every zone ending with '.', completing
\* the completed name again, under any zone, returns it without the
\* whitespace around it; that is the completed name itself whenever the zone
\* does not begin with whitespace.
C14_RecompletionStrips ==
    Recompleted =>
        /\ ret = Ok(Strip(call.prev[1].result))
        /\ call.prev[1].zone_name[1] \notin Whitespace => ret = Ok(call.prev[1].result)

\* A relative name completed under one zone came back unchanged from a
\* second completion under another.
C14_Witness ==
    /\ Recompleted
    /\ call.prev[1].name = HostBare /\ call.prev[1].zone_name = ExOrgDot
    /\ call.zone_name = ExampleCom
    /\ ret = Ok(HostBare \o <<".">> \o ExOrgDot)

\* Nibble k (from 0, most significant first) of an address, as a character.
NibbleAt(octets, k) ==
    HexDigits[8 * AddrBit(octets, 4 * k) + 4 * AddrBit(octets, 4 * k + 1)
              + 2 * AddrBit(octets, 4 * k + 2) + AddrBit(octets, 4 * k + 3) + 1]

\* The units of an address, first to last: the octets of an IPv4 address in
\* decimal, the nibbles of an IPv6 address in hex.
UnitBits(v) == IF v = 4 THEN 8 ELSE 4
UnitCount(v) == IF v = 4 THEN 4 ELSE 32
UnitsOf(ip) ==
    IF ip.v = 4 THEN [i \in 1..4 |-> NatToStr(ip.octets[i])]
    ELSE [i \in 1..32 |-> <<NibbleAt(ip.octets, i - 1)>>]

\* Units n down to 1, each followed by a dot.
RECURSIVE DownFrom(_, _)
DownFrom(units, n) ==
    IF n = 0 THEN <<>> ELSE units[n] \o <<".">> \o DownFrom(units, n - 1)

Aligned(net) ==
    IF net.v = 4 THEN net.prefix \in {8, 16, 24} ELSE net.prefix % 4 = 0

\* C15: for an IPv4 network with prefix 8, 16 or 24, and for an IPv6 network
\* with a prefix that is a multiple of 4, create_reverse_zone_name returns
\* the units the prefix covers (octets, nibbles), last first, joined by '.'
\* and followed by ".in-addr.arpa." or ".ip6.arpa.", and as split the number
\* of units the prefix leaves: (32 - p) / 8 or (128 - p) / 4.
C15_AlignedReverseZoneName ==
    (Returned("create_reverse_zone_name") /\ Aligned(call.net)) =>
        /\ call.net.prefix > 0 =>
              ret.name = DownFrom(UnitsOf(net_ip(call.net)),
                                  call.net.prefix \div UnitBits(call.net.v))
                         \o ArpaText(call.net)
        /\ call.net.prefix = 0 => ret.name = <<".">> \o ArpaText(call.net)
        /\ ret.split * UnitBits(call.net.v) = UnitCount(call.net.v) * UnitBits(call.net.v)
                                              - call.net.prefix

\* 192.168.1.77/24 gave 1.168.192.in-addr.arpa. and split 1.
C15_Witness ==
    /\ Returned("create_reverse_zone_name")
    /\ call.net = Net192Host
    /\ ret.name = <<"1", ".", "1", "6", "8", ".", "1", "9", "2", ".">> \o InAddrArpaText
    /\ ret.split = 1

\* C16 as stated: split is the prefix length divided by 8 (IPv4) or by 4
\* (IPv6), truncated.
C16_SplitIsPrefixUnits ==
    Returned("create_reverse_zone_name") =>
        ret.split = call.net.prefix \div UnitBits(call.net.v)

\* C16, amended: split is the number of whole units the prefix leaves:
\* (32 - prefix) divided by 8 for IPv4, (128 - prefix) divided by 4 for IPv6,
\* truncated.
C16_SplitIsHostUnits ==
    Returned("create_reverse_zone_name") =>
        ret.split = (UnitCount(call.net.v) * UnitBits(call.net.v) - call.net.prefix)
                        \div UnitBits(call.net.v)

\* An unaligned prefix: 10.1.2.3/20 gave split 1, not 20 / 8 = 2.
C16_Witness ==
    /\ Returned("create_reverse_zone_name")
    /\ call.net = Net10Host
    /\ ret.split = 1

\* The full reverse name of an address: all its units, last first, under
\* in-addr.arpa. or ip6.arpa.
FullReverseName(ip) ==
    DownFrom(UnitsOf(ip), UnitCount(ip.v)) \o (IF ip.v = 4 THEN InAddrArpaText ELSE Ip6ArpaText)

\* The number of address units in a reverse zone name: its labels before the
\* two of the arpa suffix.
NameUnits(name) ==
    Cardinality({i \in 1..Len(split(name, ".")) : split(name, ".")[i] # <<>>}) - 2

\* C17: for a reverse network of any prefix length and an address it
\* contains, the units in the zone name and the split add up to all the
\* units of an address (4 or 32), and ip_name(address, split), '.', and the
\* zone name make the full reverse name of the address (looked at where the
\* split leaves ip_name a unit to name).
C17_RecordNameCompletesZoneName ==
    Returned("ip_name") =>
        /\ ~ret.panic
        /\ NameUnits(call.zone) + call.split = UnitCount(call.address.v)
        /\ call.split > 0 =>
              ret.val \o <<".">> \o call.zone = FullReverseName(call.address)

\* The leftmost label of a name is the wildcard.
WildLeft(name) == split(name, ".")[1] = <<"*">>

\* The hosts a zone declares, as (name, value) pairs.
DeclaredHosts == unwrap_or(call.raw.hosts, <<>>)

\* C18: a host whose name has a wildcard leftmost label gives no PTR
\* candidate, whether with-ptr is on by default, by the zone or by the host
\* entry itself, and still gives an address record for each of its
\* addresses.
C18_WildcardHostHasNoPtr ==
    (Returned("parse_forward") /\ ret.ok) =>
        /\ \A i \in 1..Len(ret.val.ptr) : ~WildLeft(ret.val.ptr[i].name)
        /\ \A i \in 1..Len(DeclaredHosts) :
              WildLeft(Strip(DeclaredHosts[i][1])) =>
                  \A k \in 1..Len(to_vec(DeclaredHosts[i][2].ip)) :
                      \E j \in 1..Len(ret.val.zone.hosts) :
                          /\ WildLeft(ret.val.zone.hosts[j].name)
                          /\ ret.val.zone.hosts[j].ip = to_vec(DeclaredHosts[i][2].ip)[k]

\* A zone resolved that declares a wildcard host whose own entry asks for a
\* PTR record, and another host that did get its candidate.
C18_Witness ==
    /\ Returned("parse_forward") /\ ret.ok
    /\ \E i \in 1..Len(DeclaredHosts) :
          /\ DeclaredHosts[i][1] = HostWild
          /\ DeclaredHosts[i][2].with_ptr = Some(TRUE)
    /\ \E j \in 1..Len(ret.val.zone.hosts) : WildLeft(ret.val.zone.hosts[j].name)
    /\ Len(ret.val.ptr) > 0

\* The email a declaration resolves to: its own in SOA form, else the default.
ResolvedMail(entry, defaults) ==
    IF IsSome(entry.email) THEN SoaForm(entry.email[1]) ELSE defaults.email[1]

\* C19: every zone of a successful result, forward and reverse, has an
\* email: the zone's own, transformed by parse_email, when it declares one,
\* else the default email; resolution fails when neither the zone nor the
\* defaults declare one.
C19_ZoneEmailResolved ==
    /\ Returned("parse_forward") =>
          /\ ret.ok =>
                /\ IsSome(call.raw.email) \/ IsSome(call.defaults.email)
                /\ ret.val.zone.base.email = ResolvedMail(call.raw, call.defaults)
          /\ (call.raw.email = None /\ call.defaults.email = None) => ~ret.ok
    /\ Returned("parse_reverse") =>
          /\ ret.ok =>
                \A i \in 1..Len(ret.val) :
                    /\ IsSome(DeclaredEntries[i].email) \/ IsSome(call.defaults.email)
                    /\ ret.val[i].base.email = ResolvedMail(DeclaredEntries[i], call.defaults)
          /\ (/\ call.defaults.email = None
              /\ \E i \in 1..Len(DeclaredEntries) : DeclaredEntries[i].email = None) => ~ret.ok
\* Two reverse zones resolved under the default email, neither declaring
\* its own.
C19_Witness ==
    /\ Returned("parse_reverse") /\ ret.ok
    /\ Len(ret.val) = 2
    /\ \A i \in 1..2 : DeclaredEntries[i].email = None
    /\ \A i \in 1..2 : ret.val[i].base.email = EmailSoa
\* A forward zone resolved under the default email.
C19_ForwardResolved ==
    /\ Returned("parse_forward") /\ ret.ok
    /\ call.raw.email = None /\ ret.val.zone.base.email = EmailSoa
\* A zone with nothing else to reject was rejected for want of an email.
C19_RejectedWithoutEmail ==
    /\ Returned("parse_forward") /\ ~ret.ok /\ ret.err = "EmailRequired"
    /\ call.raw.email = None /\ call.defaults.email = None
\* A zone that declares its own email has resolved: no call gets there,
\* parse_email returns Ok for no address.
C19_OwnEmailResolved ==
    \/ Returned("parse_forward") /\ ret.ok /\ IsSome(call.raw.email)
    \/ /\ Returned("parse_reverse") /\ ret.ok
       /\ \E i \in 1..Len(DeclaredEntries) : IsSome(DeclaredEntries[i].email)

\* C20: the serial of a resolved zone is the one the zone declares, else the
\* one the global defaults declare, else the generated serial handed in:
\* from_raw resolves the defaults' serial against the generated one, and
\* parse_forward and parse_reverse resolve a zone's against the defaults'.
C20_SerialResolution ==
    /\ (Returned("from_raw") /\ ret.ok) =>
          ret.val.serial = Effective(call.raw.serial, call.gen_serial)
    /\ (Returned("parse_forward") /\ ret.ok) =>
          ret.val.zone.base.serial = Effective(call.raw.serial, call.defaults.serial)
    /\ (Returned("parse_reverse") /\ ret.ok) =>
          \A i \in 1..Len(ret.val) :
              ret.val[i].base.serial = Effective(DeclaredEntries[i].serial, call.defaults.serial)

\* A zone that declares its serial resolved under defaults that declare
\* another.
C20_Witness ==
    /\ Returned("parse_forward") /\ ret.ok
    /\ call.raw.serial = Some(ZoneSerial)
    /\ call.defaults.serial = DeclaredSerial
    /\ ret.val.zone.base.serial = ZoneSerial

\* Where the stars of a name stand, and whether a star is the whole of the
\* leftmost label: the first character, with a dot right after it.
Stars(name) == {p \in 1..Len(name) : name[p] = "*"}
WholeLeftmostLabel(name, p) == p = 1 /\ Len(name) >= 2 /\ name[2] = "."

\* C21: validate_dns_name accepts a name with a '*' in it only when the '*'
\* is the whole of the leftmost label; a name with '*' in another label, or
\* as part of a longer label, is rejected.
C21_WildcardOnlyLeftmost ==
    Returned("validate_dns_name") =>
        /\ ret.ok => \A p \in Stars(call.name) : WholeLeftmostLabel(call.name, p)
        /\ (\E p \in Stars(call.name) : ~WholeLeftmostLabel(call.name, p)) => ~ret.ok

\* A name with a wildcard leftmost label was accepted.
C21_Witness ==
    /\ Returned("validate_dns_name")
    /\ call.name = <<"*", ".", "e", "x", ".", "o", "r", "g", ".">>
    /\ ret.ok

\* The labels of a name: the texts between its dots, the final dot of a
\* fully qualified name closing the last label.
LabelsOf(name) ==
    split(IF ends_with(name, ".") THEN SubSeq(name, 1, Len(name) - 1) ELSE name, ".")

\* C22: validate_dns_name rejects every name with an empty label, that is
\* with a leading dot or with two dots in a row anywhere: every label of an
\* accepted name has 1 to 63 characters.
C22_NoEmptyLabel ==
    Returned("validate_dns_name") =>
        /\ (starts_with(call.name, ".") \/ consecutive_dots(call.name)) => ~ret.ok
        /\ ret.ok => \A i \in 1..Len(LabelsOf(call.name)) :
                        Len(LabelsOf(call.name)[i]) \in 1..MaxLabelLen

\* C23: decoding a TTL accepts exactly the integers 1 to 2147483647 and
\* yields the integer itself; 0, negative integers and every integer above
\* 2147483647 are rejected, in whichever width the number comes.
C23_TtlRange ==
    Returned("deserialize_ttl") =>
        /\ ret.ok <=> (/\ ~call.number.neg
                       /\ Le(<<0, 1>>, call.number.mag)
                       /\ Le(call.number.mag, TtlMax))
        /\ ret.ok => ret.val = call.number.mag

\* A decimal numeral: digits only, at least one, after an optional '+'.
Unsigned(t) == IF starts_with(t, "+") THEN Tail(t) ELSE t
IsNumeral(t) == Len(Unsigned(t)) > 0 /\ \A i \in 1..Len(Unsigned(t)) : Unsigned(t)[i] \in DigitSet
\* The numeral without its leading zeros ("0" for zero).
Significant(t) ==
    IF \A i \in 1..Len(t) : t[i] = "0" THEN <<"0">>
    ELSE SubSeq(t, Lowest({i \in 1..Len(t) : t[i] # "0"}), Len(t))
\* a <= b for two numerals of one length, digit by digit.
NumeralLe(a, b) ==
    \/ a = b
    \/ \E k \in 1..Len(a) :
          /\ DigitVal(a[k]) < DigitVal(b[k])
          /\ \A j \in 1..(k - 1) : a[j] = b[j]
U32MaxText == <<"4", "2", "9", "4", "9", "6", "7", "2", "9", "5">>
FitsU32(t) ==
    \/ Len(Significant(Unsigned(t))) < Len(U32MaxText)
    \/ /\ Len(Significant(Unsigned(t))) = Len(U32MaxText)
       /\ NumeralLe(Significant(Unsigned(t)), U32MaxText)
HoldsU32(f) == f.exists /\ IsNumeral(Strip(f.text)) /\ FitsU32(Strip(f.text))

\* C24: load_serial always returns a 32-bit number: the number the file holds
\* when its text, whitespace around it aside, is a decimal numeral that fits
\* 32 bits, and 0 for a missing file and for any other text; after a
\* save_serial(s) that succeeded it returns s.
C24_LoadSerialTotal ==
    Returned("load_serial") =>
        /\ Le(ret, U32Max) /\ ret[1] \in Nat /\ ret[2] \in 0..(Base - 1)
        /\ HoldsU32(file) => U32ToStr(ret) = Significant(Unsigned(Strip(file.text)))
        /\ ~HoldsU32(file) => ret = <<0, 0>>
        /\ IsSome(call.saved) => ret = call.saved[1]
C24_Witness ==
    /\ Returned("load_serial")
    /\ call.saved = Some(<<10000, 50>>)
    /\ ret = <<10000, 50>>
C24_WitnessUnparsable ==
    /\ Returned("load_serial")
    /\ file = Holding(<<"1", "2", " ", "3">>)
    /\ ret = <<0, 0>>

\* a comes strictly before b as text: at the first place where they differ a
\* has ended or has the lower byte.
Precedes(a, b) ==
    \E k \in 1..Len(b) :
        /\ Len(a) >= k - 1
        /\ \A j \in 1..(k - 1) : a[j] = b[j]
        /\ (Len(a) = k - 1 \/ byte(a[k]) < byte(b[k]))
\* Address x is not after address y: IPv4 before IPv6, then byte by byte.
AddrNotAfter(x, y) ==
    \/ x.v < y.v
    \/ /\ x.v = y.v
       /\ \/ x.octets = y.octets
          \/ \E k \in 1..Len(x.octets) :
                /\ x.octets[k] < y.octets[k]
                /\ \A j \in 1..(k - 1) : x.octets[j] = y.octets[j]
\* Record a may be written before record b in a zone: a is at the apex, or
\* neither is and a has the lower name, or the same name and no higher address.
MayPrecede(a, b, zone_name) ==
    \/ a.name = zone_name
    \/ /\ b.name # zone_name
       /\ \/ Precedes(a.name, b.name)
          \/ a.name = b.name /\ AddrNotAfter(a.ip, b.ip)
Rendered == Returned("write_nsd") \/ Returned("generate_unbound")

\* C25: in the output of each renderer the A/AAAA records of a forward zone
\* come with the records of the zone apex first and the others by name and
\* then by address.
C25_ApexThenNameThenAddress ==
    Rendered =>
        \A i \in 1..Len(ret) : \A j \in (i + 1)..Len(ret) :
            MayPrecede(ret[i], ret[j], call.zone.name)
\* The same for write_nsd alone.
C25_NsdOrder ==
    Returned("write_nsd") =>
        \A i \in 1..Len(ret) : \A j \in (i + 1)..Len(ret) :
            MayPrecede(ret[i], ret[j], call.zone.name)

\* What a forward zone's records are resolved against: the zone's own value
\* of a field where declared, else the session default's.
ZoneTtl == Effective(call.raw.ttl, call.defaults.ttl)
ZoneMxPrio == Effective(call.raw.mx_prio, call.defaults.mx_prio)
ZoneSrvPrio == Effective(call.raw.srv_prio, call.defaults.srv_prio)
ZoneSrvWeight == Effective(call.raw.srv_weight, call.defaults.srv_weight)
ZoneWithPtr == Effective(call.raw.with_ptr, call.defaults.with_ptr)
\* The MX entries in force: the zone's when it declares mx, else the defaults'.
MxInForce == IF call.raw.mx = None THEN call.defaults.mx ELSE call.raw.mx[1].vals
\* The ttl each NS record is declared with: none for a default nameserver.
NsTtlInForce ==
    IF call.raw.nameserver = None
    THEN [i \in 1..Len(call.defaults.nameserver) |-> None]
    ELSE [i \in 1..Len(call.raw.nameserver[1].vals) |-> call.raw.nameserver[1].vals[i].ttl]
DeclaredSrv == unwrap_or(call.raw.srv, <<>>)
DeclaredCname == unwrap_or(call.raw.cname, <<>>)
\* A name completed against a zone name that ends with a dot.
Completed(name, zone) ==
    IF ends_with(Strip(name), ".") THEN Strip(name)
    ELSE IF Strip(name) = <<"@">> THEN zone
    ELSE Strip(name) \o <<".">> \o zone
\* The A/AAAA records one declared host stands for: per address one under
\* the host's name and one under each alias, with the host's ttl.
AliasesOf(value) == IF value.alias = None THEN <<>> ELSE value.alias[1].vals
HostA(pair, zone, zone_ttl) ==
    [m \in 1..(Len(pair[2].ip.vals) * (1 + Len(AliasesOf(pair[2])))) |->
        [name |-> IF (m - 1) % (1 + Len(AliasesOf(pair[2]))) = 0
                  THEN Completed(pair[1], zone)
                  ELSE Completed(AliasesOf(pair[2])[(m - 1) % (1 + Len(AliasesOf(pair[2])))], zone),
         ip |-> pair[2].ip.vals[((m - 1) \div (1 + Len(AliasesOf(pair[2])))) + 1],
         ttl |-> Effective(pair[2].ttl, zone_ttl)]]
RECURSIVE ExpectedA(_, _, _)
ExpectedA(pairs, zone, zone_ttl) ==
    IF Len(pairs) = 0 THEN <<>>
    ELSE HostA(Head(pairs), zone, zone_ttl) \o ExpectedA(Tail(pairs), zone, zone_ttl)
\* The host's PTR candidates when it gives any: one per address.
HostPtrs(pair, zone, zone_ttl) ==
    [a \in 1..Len(pair[2].ip.vals) |->
        [name |-> Completed(pair[1], zone), ip |-> pair[2].ip.vals[a],
         ttl |-> Effective(pair[2].ttl, zone_ttl)]]

\* C26: a forward zone's expire, nrc-ttl, refresh, retry, ttl, mx-prio,
\* srv-prio, srv-weight and with-ptr are each the zone's own value where
\* declared and the session default's otherwise; a record's ttl, an MX
\* record's prio and an SRV record's prio and weight are the entry's own
\* where declared and the zone's resolved value otherwise.
C26_ShallowOverride ==
    (Returned("parse_forward") /\ ret.ok) =>
        /\ ret.val.zone.base.expire = Effective(call.raw.expire, call.defaults.expire)
        /\ ret.val.zone.base.nrc_ttl = Effective(call.raw.nrc_ttl, call.defaults.nrc_ttl)
        /\ ret.val.zone.base.refresh = Effective(call.raw.refresh, call.defaults.refresh)
        /\ ret.val.zone.base.retry = Effective(call.raw.retry, call.defaults.retry)
        /\ ret.val.zone.base.ttl = ZoneTtl
        /\ Len(ret.val.zone.mx) = Len(MxInForce)
        /\ \A i \in 1..Len(MxInForce) :
              /\ ret.val.zone.mx[i].ttl = Effective(MxInForce[i].ttl, ZoneTtl)
              /\ ret.val.zone.mx[i].prio = Effective(MxInForce[i].prio, ZoneMxPrio)
        /\ Len(ret.val.zone.srv) = Len(DeclaredSrv)
        /\ \A i \in 1..Len(DeclaredSrv) :
              /\ ret.val.zone.srv[i].ttl = Effective(DeclaredSrv[i][2].ttl, ZoneTtl)
              /\ ret.val.zone.srv[i].prio = Effective(DeclaredSrv[i][2].prio, ZoneSrvPrio)
              /\ ret.val.zone.srv[i].weight = Effective(DeclaredSrv[i][2].weight, ZoneSrvWeight)
        /\ Len(ret.val.zone.cname) = Len(DeclaredCname)
        /\ \A i \in 1..Len(DeclaredCname) :
              ret.val.zone.cname[i].ttl = Effective(DeclaredCname[i][2].ttl, ZoneTtl)
        /\ Len(ret.val.zone.base.nameserver) = Len(NsTtlInForce)
        /\ \A i \in 1..Len(NsTtlInForce) :
              ret.val.zone.base.nameserver[i].ttl = Effective(NsTtlInForce[i], ZoneTtl)
        /\ [j \in 1..Len(ret.val.zone.hosts) |-> ret.val.zone.hosts[j].ttl]
              = [j \in 1..Len(ExpectedA(DeclaredHosts, ret.val.zone.base.name, ZoneTtl)) |->
                    ExpectedA(DeclaredHosts, ret.val.zone.base.name, ZoneTtl)[j].ttl]
        /\ \A i \in 1..Len(DeclaredHosts) :
              (/\ ~starts_with(Strip(DeclaredHosts[i][1]), "*")
               /\ Len(DeclaredHosts[i][2].ip.vals) > 0) =>
                  (Effective(DeclaredHosts[i][2].with_ptr, ZoneWithPtr)
                   <=> \E j \in 1..Len(ret.val.ptr) :
                          ret.val.ptr[j].name = Completed(DeclaredHosts[i][1], ret.val.zone.base.name))
C26_Witness ==
    /\ Returned("parse_forward") /\ ret.ok
    /\ call.raw.ttl = Some(7200) /\ call.raw.expire = Some(200) /\ call.raw.mx_prio = None
    /\ call.raw.srv_prio = Some(3) /\ call.raw.with_ptr = Some(FALSE)
    /\ call.raw.mx # None /\ call.raw.nameserver # None
    /\ ret.val.zone.base.ttl = 7200 /\ ret.val.zone.base.expire = 200
    /\ ret.val.zone.base.nameserver[1].ttl = 7200
    /\ ret.val.zone.base.nameserver[2].ttl = 60
    /\ ret.val.zone.base.nameserver[3].ttl = 7200
    /\ ret.val.zone.mx[1].ttl = 7200 /\ ret.val.zone.mx[2].ttl = 77
    /\ ret.val.zone.mx[1].prio = 10 /\ ret.val.zone.mx[3].prio = 5
    /\ ret.val.zone.srv[1].prio = 3 /\ ret.val.zone.srv[2].prio = 1
    /\ Len(ret.val.ptr) = 1

\* The names of a list of records, in order.
NamesOf(records) == [i \in 1..Len(records) |-> records[i].name]
\* The names a zone's declared nameserver (or mx) entries stand for, in order.
DeclaredNames(value, zone) ==
    [i \in 1..Len(value[1].vals) |-> Completed(value[1].vals[i].name, zone)]

\* C27: a zone that declares nameserver (or mx) has exactly the declared
\* entries as its NS (or MX) records, in declared order, and none of the
\* defaults; a zone that declares none has the default entries in their order.
C27_FullReplacement ==
    (Returned("parse_forward") /\ ret.ok) =>
        /\ NamesOf(ret.val.zone.base.nameserver) =
              (IF call.raw.nameserver = None THEN call.defaults.nameserver
               ELSE DeclaredNames(call.raw.nameserver, ret.val.zone.base.name))
        /\ NamesOf(ret.val.zone.mx) =
              (IF call.raw.mx = None THEN NamesOf(call.defaults.mx)
               ELSE DeclaredNames(call.raw.mx, ret.val.zone.base.name))
C27_Witness ==
    /\ Returned("parse_forward") /\ ret.ok
    /\ call.defaults.nameserver = <<Ns2Fqdn, NsFqdn>>
    /\ call.raw.nameserver # None /\ Len(call.raw.nameserver[1].vals) = 2
    /\ call.raw.mx = None
    /\ NamesOf(ret.val.zone.base.nameserver) = <<NsFqdn, NsNoDot \o <<".">> \o ExOrgDot>>
    /\ NamesOf(ret.val.zone.mx) = <<MxFqdn, HostFqdn>>

\* The PTR candidates the declared hosts stand for: the addresses of every
\* host for which with-ptr resolves true and whose completed name has no
\* wildcard as its leftmost label.
RECURSIVE ExpectedPtr(_, _, _, _)
ExpectedPtr(pairs, zone, zone_ttl, zone_with_ptr) ==
    IF Len(pairs) = 0 THEN <<>>
    ELSE (IF /\ Effective(Head(pairs)[2].with_ptr, zone_with_ptr)
             /\ ~WildLeft(Completed(Head(pairs)[1], zone))
          THEN HostPtrs(Head(pairs), zone, zone_ttl) ELSE <<>>)
         \o ExpectedPtr(Tail(pairs), zone, zone_ttl, zone_with_ptr)
\* The same with the name tested for a star as its first character.
RECURSIVE ExpectedPtrByFirstChar(_, _, _, _)
ExpectedPtrByFirstChar(pairs, zone, zone_ttl, zone_with_ptr) ==
    IF Len(pairs) = 0 THEN <<>>
    ELSE (IF /\ Effective(Head(pairs)[2].with_ptr, zone_with_ptr)
             /\ ~starts_with(Completed(Head(pairs)[1], zone), "*")
          THEN HostPtrs(Head(pairs), zone, zone_ttl) ELSE <<>>)
         \o ExpectedPtrByFirstChar(Tail(pairs), zone, zone_ttl, zone_with_ptr)

\* C28: a host with n addresses and k aliases gives n*(1+k) A/AAAA records,
\* per address one under the host's name and one under each alias, all with
\* the address and the host's ttl; it gives n PTR candidates, under its own
\* name, when with-ptr resolves true and its name is no wildcard, else none.
C28_HostRecords ==
    (Returned("parse_forward") /\ ret.ok) =>
        /\ ret.val.zone.hosts = ExpectedA(DeclaredHosts, ret.val.zone.base.name, ZoneTtl)
        /\ ret.val.ptr = ExpectedPtr(DeclaredHosts, ret.val.zone.base.name, ZoneTtl, ZoneWithPtr)
\* The same with "no wildcard" read as "does not begin with a star".
C28_HostRecordsByFirstChar ==
    (Returned("parse_forward") /\ ret.ok) =>
        /\ ret.val.zone.hosts = ExpectedA(DeclaredHosts, ret.val.zone.base.name, ZoneTtl)
        /\ ret.val.ptr =
              ExpectedPtrByFirstChar(DeclaredHosts, ret.val.zone.base.name, ZoneTtl, ZoneWithPtr)
\* A host of three addresses and two aliases gave nine records and three
\* PTR candidates.
C28_Reached ==
    /\ Returned("parse_forward") /\ ret.ok
    /\ Len(DeclaredHosts) = 1
    /\ Len(DeclaredHosts[1][2].ip.vals) = 3 /\ Len(AliasesOf(DeclaredHosts[1][2])) = 2
    /\ Len(ret.val.zone.hosts) = 9 /\ Len(ret.val.ptr) = 3

\* C29: parse_reverse over the same declarations and the same pool in two
\* iteration orders fails both times or succeeds both times, and on success
\* gives every network the same zone: same name, split, fields and PTR set.
C29_OrderIndependent ==
    (Returned("parse_reverse") /\ IsSome(call.prev)) =>
        /\ ret.ok <=> call.prev[1].result.ok
        /\ ret.ok =>
              /\ Len(ret.val) = Len(call.prev[1].result.val)
              /\ \A i \in 1..Len(ret.val) : \A j \in 1..Len(call.prev[1].pairs) :
                    call.prev[1].pairs[j][1] = DeclaredNets[i]
                        => ret.val[i] = call.prev[1].result.val[j]
C29_Witness ==
    /\ Returned("parse_reverse") /\ IsSome(call.prev)
    /\ ret.ok /\ Len(ret.val) = 2
    /\ ret.val[1].ptr # {} /\ ret.val[2].ptr # {}
    /\ ret.val[1] = call.prev[1].result.val[2]
    /\ ret.val[1] # ret.val[2]
\* Two orders of overlapping networks both failed.
C29_BothFailed ==
    /\ Returned("parse_reverse") /\ IsSome(call.prev)
    /\ ~ret.ok /\ ret.err = "NetworksOverlap" /\ ~call.prev[1].result.ok

\* The files written before this run and by this run.
Earlier == 1..Len(start.outputs)
Current == (Len(start.outputs) + 1)..Len(outputs)
ZonesWritten(files) == \E i \in files : Len(outputs[i].zones) > 0

\* C30: a run never writes output that embeds a serial which the output of
\* an earlier run embeds, also after a run whose save_serial failed.
C30_RunsEmbedDistinctSerials ==
    \A i \in Earlier : \A j \in Current :
        \A a \in 1..Len(outputs[i].zones) : \A b \in 1..Len(outputs[j].zones) :
            outputs[i].zones[a][2] # outputs[j].zones[b][2]
\* Two runs have each written a file that holds a zone.
C30_TwoRunsEmbedded == ZonesWritten(Earlier) /\ ZonesWritten(Current)
\* Two runs have each written output, the first one's save_serial failed.
C30_TwoRunsWrote ==
    /\ runs = 2 /\ Len(start.outputs) > 0 /\ Len(outputs) > Len(start.outputs)
    /\ start.file = Missing

====
